---- MODULE Spec2Model ----
(***************************************************************************)
(* Model of the chess rules engine in src/engine/game.py (class ChessGame) *)
(* and of the position codec in src/engine/fen.py.                         *)
(*                                                                         *)
(* A ChessGame object is a record `self` with the object's fields.  A      *)
(* square is <<row, col>> (row 0 is black's back rank), a piece is         *)
(* <<colour, type>>.  Python's None is None (piece), NonePos (square),     *)
(* NoneInt (expiry) and "none" (status, winner).  Lists of squares are     *)
(* modelled as sets: the engine only ever tests membership and emptiness.  *)
(***************************************************************************)
EXTENDS Integers, Sequences, FiniteSets, TLC

VARIABLES game, result, moved,
          parse, call,
          controller, players, threads, ui_queue

\* The state of the suggestion pipeline, the AI players and the controller.
ai_vars == <<parse, call, controller, players, threads, ui_queue>>

vars == <<game, result, moved, parse, call, controller, players, threads, ui_queue>>

\* ---------------------------------------------------------------- values
Rows == 0..7
Pos == Rows \X Rows

None == <<"none", "none">>
NonePos == <<-1, -1>>
NoneInt == -1

Colors == {"white", "black"}

piece_order == <<"R", "N", "B", "Q", "K", "B", "N", "R">>

opponent_of(color) == IF color = "white" THEN "black" ELSE "white"

abs(n) == IF n < 0 THEN -n ELSE n

rook_directions == {<<1, 0>>, <<-1, 0>>, <<0, 1>>, <<0, -1>>}
bishop_directions == {<<1, 1>>, <<1, -1>>, <<-1, 1>>, <<-1, -1>>}
queen_directions == rook_directions \cup bishop_directions
king_moves == queen_directions
knight_moves == {<<2, 1>>, <<2, -1>>, <<-2, 1>>, <<-2, -1>>,
                 <<1, 2>>, <<1, -2>>, <<-1, 2>>, <<-1, -2>>}

\* ---------------------------------------------------------------- reset
initial_board ==
    [p \in Pos |->
        IF p[1] = 0 THEN <<"black", piece_order[p[2] + 1]>>
        ELSE IF p[1] = 7 THEN <<"white", piece_order[p[2] + 1]>>
        ELSE IF p[1] = 1 THEN <<"black", "P">>
        ELSE IF p[1] = 6 THEN <<"white", "P">>
        ELSE None]

all_rights == [c \in Colors |-> [s \in {"K", "Q"} |-> TRUE]]

reset ==
    [board |-> initial_board,
     castling_rights |-> all_rights,
     current_player |-> "white",
     en_passant_target |-> NonePos,
     en_passant_expires |-> NoneInt,
     turn_counter |-> 0,
     halfmove_clock |-> 0,
     fullmove_number |-> 1,
     game_over |-> FALSE,
     status |-> "none",
     winner |-> "none"]

\* ---------------------------------------------------------------- utilities
is_on_board(row, col) == row \in Rows /\ col \in Rows

is_empty(self, position) ==
    ~ is_on_board(position[1], position[2]) \/ self.board[position] = None

is_enemy_piece(self, position, player_color) ==
    /\ is_on_board(position[1], position[2])
    /\ self.board[position] # None
    /\ self.board[position][1] # player_color

\* ---------------------------------------------------------------- attack patterns
\* A ray ends before the first occupied square.
RECURSIVE linear_ray_for_board_stops_short(_, _, _, _, _)
linear_ray_for_board_stops_short(board, r, c, dr, dc) ==
    IF ~ is_on_board(r, c) THEN {}
    ELSE IF board[<<r, c>>] # None THEN {}
    ELSE {<<r, c>>} \cup linear_ray_for_board_stops_short(board, r + dr, c + dc, dr, dc)

RECURSIVE linear_ray_for_board(_, _, _, _, _)
linear_ray_for_board(board, r, c, dr, dc) ==
    IF ~ is_on_board(r, c) THEN {}
    ELSE IF board[<<r, c>>] # None THEN {<<r, c>>}
    ELSE {<<r, c>>} \cup linear_ray_for_board(board, r + dr, c + dc, dr, dc)

get_linear_moves_for_board(board, row, col, directions) ==
    UNION {linear_ray_for_board(board, row + d[1], col + d[2], d[1], d[2]) :
           d \in directions}

offset_squares(row, col, offsets) ==
    {<<row + d[1], col + d[2]>> : d \in {o \in offsets : is_on_board(row + o[1], col + o[2])}}

get_valid_moves_for_board(board, row, col) ==
    LET piece == board[<<row, col>>]
        color == piece[1]
        p_type == piece[2]
        direction == IF color = "white" THEN -1 ELSE 1
    IN  IF piece = None THEN {}
        ELSE IF p_type = "P" THEN offset_squares(row, col, {<<direction, -1>>, <<direction, 1>>})
        ELSE IF p_type = "R" THEN get_linear_moves_for_board(board, row, col, rook_directions)
        ELSE IF p_type = "N" THEN offset_squares(row, col, knight_moves)
        ELSE IF p_type = "B" THEN get_linear_moves_for_board(board, row, col, bishop_directions)
        ELSE IF p_type = "Q" THEN get_linear_moves_for_board(board, row, col, queen_directions)
        ELSE IF p_type = "K" THEN offset_squares(row, col, king_moves)
        ELSE {}

is_square_attacked(board, square, by_color) ==
    \E p \in Pos :
        /\ board[p] # None
        /\ board[p][1] = by_color
        /\ square \in get_valid_moves_for_board(board, p[1], p[2])

\* The board dict is filled row by row, column by column: its iteration order.
board_order(p, q) == p[1] < q[1] \/ (p[1] = q[1] /\ p[2] <= q[2])

find_king_for_board(board, color) ==
    LET kings == {p \in Pos : board[p] = <<color, "K">>}
    IN  IF kings = {} THEN NonePos
        ELSE CHOOSE k \in kings : \A other \in kings : board_order(k, other)

\* A side without a king is never in check.
is_in_check_for_board_kingless_safe(board, color) ==
    LET king_position == find_king_for_board(board, color)
    IN  IF king_position = NonePos THEN FALSE
        ELSE is_square_attacked(board, king_position, opponent_of(color))

is_in_check_for_board(board, color) ==
    LET king_position == find_king_for_board(board, color)
    IN  IF king_position = NonePos THEN TRUE
        ELSE is_square_attacked(board, king_position, opponent_of(color))

is_in_check(self, color) == is_in_check_for_board(self.board, color)

\* ---------------------------------------------------------------- move patterns
RECURSIVE linear_ray_takes_king(_, _, _, _, _, _)
linear_ray_takes_king(self, r, c, dr, dc, color) ==
    IF ~ is_on_board(r, c) THEN {}
    ELSE IF is_empty(self, <<r, c>>)
         THEN {<<r, c>>} \cup linear_ray_takes_king(self, r + dr, c + dc, dr, dc, color)
    ELSE IF is_enemy_piece(self, <<r, c>>, color) THEN {<<r, c>>}
    ELSE {}

RECURSIVE linear_ray(_, _, _, _, _, _)
linear_ray(self, r, c, dr, dc, color) ==
    IF ~ is_on_board(r, c) THEN {}
    ELSE IF is_empty(self, <<r, c>>)
         THEN {<<r, c>>} \cup linear_ray(self, r + dr, c + dc, dr, dc, color)
    ELSE IF is_enemy_piece(self, <<r, c>>, color)
         THEN (IF self.board[<<r, c>>][2] # "K" THEN {<<r, c>>} ELSE {})
    ELSE {}

get_linear_moves(self, row, col, color, directions) ==
    UNION {linear_ray(self, row + d[1], col + d[2], d[1], d[2], color) : d \in directions}

step_moves(self, row, col, color, offsets) ==
    {t \in offset_squares(row, col, offsets) :
        \/ is_empty(self, t)
        \/ (is_enemy_piece(self, t, color) /\ self.board[t][2] # "K")}

en_passant_open(self) ==
    /\ self.en_passant_target # NonePos
    /\ self.en_passant_expires = self.turn_counter

\* A pawn never advances two squares.
pawn_moves_single_step(self, row, col, color) ==
    LET direction == IF color = "white" THEN -1 ELSE 1
        forward_one == <<row + direction, col>>
        forward ==
            IF is_on_board(forward_one[1], forward_one[2]) /\ is_empty(self, forward_one)
            THEN {forward_one}
            ELSE {}
        diagonals == offset_squares(row, col, {<<direction, -1>>, <<direction, 1>>})
        captures == {t \in diagonals :
                        is_enemy_piece(self, t, color) /\ self.board[t][2] # "K"}
        en_passant == {t \in diagonals : en_passant_open(self) /\ t = self.en_passant_target}
    IN  forward \cup captures \cup en_passant

\* The two-square advance does not look at the square in between.
pawn_moves_jumps(self, row, col, color) ==
    LET direction == IF color = "white" THEN -1 ELSE 1
        start_row == IF color = "white" THEN 6 ELSE 1
        forward_one == <<row + direction, col>>
        forward_two == <<row + 2 * direction, col>>
        forward ==
            (IF is_on_board(forward_one[1], forward_one[2]) /\ is_empty(self, forward_one)
             THEN {forward_one} ELSE {})
            \cup (IF row = start_row /\ is_empty(self, forward_two)
                  THEN {forward_two} ELSE {})
        diagonals == offset_squares(row, col, {<<direction, -1>>, <<direction, 1>>})
        captures == {t \in diagonals :
                        is_enemy_piece(self, t, color) /\ self.board[t][2] # "K"}
        en_passant == {t \in diagonals : en_passant_open(self) /\ t = self.en_passant_target}
    IN  forward \cup captures \cup en_passant

pawn_moves(self, row, col, color) ==
    LET direction == IF color = "white" THEN -1 ELSE 1
        start_row == IF color = "white" THEN 6 ELSE 1
        forward_one == <<row + direction, col>>
        forward_two == <<row + 2 * direction, col>>
        forward ==
            IF is_on_board(forward_one[1], forward_one[2]) /\ is_empty(self, forward_one)
            THEN {forward_one} \cup
                 (IF row = start_row /\ is_empty(self, forward_two) THEN {forward_two} ELSE {})
            ELSE {}
        diagonals == offset_squares(row, col, {<<direction, -1>>, <<direction, 1>>})
        captures == {t \in diagonals :
                        is_enemy_piece(self, t, color) /\ self.board[t][2] # "K"}
        en_passant == {t \in diagonals : en_passant_open(self) /\ t = self.en_passant_target}
    IN  forward \cup captures \cup en_passant

can_castle_kingside(self, color) ==
    LET row == IF color = "white" THEN 7 ELSE 0
        opponent == opponent_of(color)
    IN  /\ self.castling_rights[color]["K"]
        /\ self.board[<<row, 4>>] = <<color, "K">>
        /\ self.board[<<row, 7>>] = <<color, "R">>
        /\ is_empty(self, <<row, 5>>)
        /\ is_empty(self, <<row, 6>>)
        /\ ~ is_square_attacked(self.board, <<row, 4>>, opponent)
        /\ ~ is_square_attacked(self.board, <<row, 5>>, opponent)
        /\ ~ is_square_attacked(self.board, <<row, 6>>, opponent)

\* The king may castle out of check: its own square is not tested.
can_castle_queenside_out_of_check(self, color) ==
    LET row == IF color = "white" THEN 7 ELSE 0
        opponent == opponent_of(color)
    IN  /\ self.castling_rights[color]["Q"]
        /\ self.board[<<row, 4>>] = <<color, "K">>
        /\ self.board[<<row, 0>>] = <<color, "R">>
        /\ is_empty(self, <<row, 1>>)
        /\ is_empty(self, <<row, 2>>)
        /\ is_empty(self, <<row, 3>>)
        /\ ~ is_square_attacked(self.board, <<row, 3>>, opponent)
        /\ ~ is_square_attacked(self.board, <<row, 2>>, opponent)

can_castle_queenside(self, color) ==
    LET row == IF color = "white" THEN 7 ELSE 0
        opponent == opponent_of(color)
    IN  /\ self.castling_rights[color]["Q"]
        /\ self.board[<<row, 4>>] = <<color, "K">>
        /\ self.board[<<row, 0>>] = <<color, "R">>
        /\ is_empty(self, <<row, 1>>)
        /\ is_empty(self, <<row, 2>>)
        /\ is_empty(self, <<row, 3>>)
        /\ ~ is_square_attacked(self.board, <<row, 4>>, opponent)
        /\ ~ is_square_attacked(self.board, <<row, 3>>, opponent)
        /\ ~ is_square_attacked(self.board, <<row, 2>>, opponent)

castling_moves(self, row, col, color) ==
    (IF can_castle_kingside(self, color) THEN {<<row, col + 2>>} ELSE {})
    \cup (IF can_castle_queenside(self, color) THEN {<<row, col - 2>>} ELSE {})

pseudo_moves(self, row, col) ==
    LET piece == self.board[<<row, col>>]
        color == piece[1]
        p_type == piece[2]
    IN  IF p_type = "P" THEN pawn_moves(self, row, col, color)
        ELSE IF p_type = "R" THEN get_linear_moves(self, row, col, color, rook_directions)
        ELSE IF p_type = "N" THEN step_moves(self, row, col, color, knight_moves)
        ELSE IF p_type = "B" THEN get_linear_moves(self, row, col, color, bishop_directions)
        ELSE IF p_type = "Q" THEN get_linear_moves(self, row, col, color, queen_directions)
        ELSE IF p_type = "K" THEN step_moves(self, row, col, color, king_moves)
                                  \cup castling_moves(self, row, col, color)
        ELSE {}

simulate_move(self, start_pos, end_pos) ==
    LET piece == self.board[start_pos]
        p_type == piece[2]
        captured_pos == <<start_pos[1], end_pos[2]>>
        en_passant == p_type = "P" /\ en_passant_open(self) /\ end_pos = self.en_passant_target
    IN  IF piece = None THEN self.board
        ELSE [p \in Pos |->
                IF p = start_pos THEN None
                ELSE IF p = end_pos THEN piece
                ELSE IF en_passant /\ p = captured_pos THEN None
                ELSE self.board[p]]

get_valid_moves_unfiltered(self, row, col) ==
    IF ~ is_on_board(row, col) \/ self.board[<<row, col>>] = None THEN {}
    ELSE pseudo_moves(self, row, col)

get_valid_moves(self, row, col) ==
    LET piece == IF is_on_board(row, col) THEN self.board[<<row, col>>] ELSE None
        color == piece[1]
    IN  IF piece = None THEN {}
        ELSE {move \in pseudo_moves(self, row, col) :
                ~ is_in_check_for_board(simulate_move(self, <<row, col>>, move), color)}

\* ---------------------------------------------------------------- move execution
is_en_passant_capture(self, start, end) ==
    /\ self.board[start][2] = "P"
    /\ self.en_passant_target # NonePos
    /\ end = self.en_passant_target
    /\ self.en_passant_expires = self.turn_counter

is_castling_move(self, start, end) ==
    self.board[start][2] = "K" /\ abs(start[2] - end[2]) = 2

\* The en-passant branch removes the pawn beside the start square.
en_passant_removed_keeps_pawn(self, board, start, end) == board

en_passant_removed(self, board, start, end) ==
    IF is_en_passant_capture(self, start, end)
    THEN [board EXCEPT ![<<start[1], end[2]>>] = None]
    ELSE board

\* The castling branch moves the rook from its corner to the king's far side.
rook_relocated_rook_stays(self, board, start, end) == board

\* The rook of a castling king is put on the king's landing square.
rook_relocated_onto_king(self, board, start, end) ==
    LET row == start[1]
    IN  IF is_castling_move(self, start, end)
        THEN IF end[2] = 6
             THEN [board EXCEPT ![<<row, 6>>] = board[<<row, 7>>],
                                ![<<row, 7>>] = None]
             ELSE IF end[2] = 2
             THEN [board EXCEPT ![<<row, 2>>] = board[<<row, 0>>],
                                ![<<row, 0>>] = None]
             ELSE board
        ELSE board

rook_relocated(self, board, start, end) ==
    LET row == start[1]
    IN  IF is_castling_move(self, start, end)
        THEN IF end[2] = 6
             THEN [board EXCEPT ![<<row, 5>>] = board[<<row, 7>>],
                                ![<<row, 7>>] = None]
             ELSE IF end[2] = 2
             THEN [board EXCEPT ![<<row, 3>>] = board[<<row, 0>>],
                                ![<<row, 0>>] = None]
             ELSE board
        ELSE board

\* A pawn arriving on row 0 or 7 is replaced by a queen of its colour.
promoted_stays_pawn(self, board, start, end) == board

promoted(self, board, start, end) ==
    LET piece == self.board[start]
    IN  IF piece[2] = "P" /\ (end[1] = 0 \/ end[1] = 7)
        THEN [board EXCEPT ![end] = <<piece[1], "Q">>]
        ELSE board

board_after_move(self, start, end) ==
    LET moved_board == [self.board EXCEPT ![start] = None, ![end] = self.board[start]]
        ep_board == en_passant_removed(self, moved_board, start, end)
        castled_board == rook_relocated(self, ep_board, start, end)
    IN  promoted(self, castled_board, start, end)

corner_right(square) ==
    IF square = <<7, 7>> THEN <<"white", "K">>
    ELSE IF square = <<7, 0>> THEN <<"white", "Q">>
    ELSE IF square = <<0, 7>> THEN <<"black", "K">>
    ELSE IF square = <<0, 0>> THEN <<"black", "Q">>
    ELSE <<"none", "none">>

clear_right(rights, cr) ==
    IF cr[1] = "none" THEN rights ELSE [rights EXCEPT ![cr[1]][cr[2]] = FALSE]

\* Rights read off the placement: true while king and rook stand at home.
rights_after_move_from_placement(self, start, end) ==
    LET board == [self.board EXCEPT ![start] = None, ![end] = self.board[start]]
    IN  [c \in Colors |-> [s \in {"K", "Q"} |->
            LET row == IF c = "white" THEN 7 ELSE 0
            IN  /\ board[<<row, 4>>] = <<c, "K">>
                /\ board[<<row, IF s = "K" THEN 7 ELSE 0>>] = <<c, "R">>]]

\* A king move leaves the rights alone.
rights_after_move_king_keeps(self, start, end) ==
    LET p_type == self.board[start][2]
        target_before == self.board[end]
        mover_rights ==
            IF p_type = "R"
            THEN clear_right(self.castling_rights, corner_right(start))
            ELSE self.castling_rights
    IN  IF target_before # None /\ target_before[2] = "R"
        THEN clear_right(mover_rights, corner_right(end))
        ELSE mover_rights

rights_after_move(self, start, end) ==
    LET piece == self.board[start]
        color == piece[1]
        p_type == piece[2]
        target_before == self.board[end]
        mover_rights ==
            IF p_type = "K"
            THEN [self.castling_rights EXCEPT ![color] = [s \in {"K", "Q"} |-> FALSE]]
            ELSE IF p_type = "R"
            THEN clear_right(self.castling_rights, corner_right(start))
            ELSE self.castling_rights
    IN  IF target_before # None /\ target_before[2] = "R"
        THEN clear_right(mover_rights, corner_right(end))
        ELSE mover_rights

is_double_push(self, start, end) ==
    self.board[start][2] = "P" /\ abs(end[1] - start[1]) = 2

\* The capture window closes with the double push itself.
_move_piece_window_closed(self, start, end) ==
    [self EXCEPT
        !.board = board_after_move(self, start, end),
        !.castling_rights = rights_after_move(self, start, end),
        !.en_passant_target =
            IF is_double_push(self, start, end)
            THEN <<(start[1] + end[1]) \div 2, start[2]>>
            ELSE self.en_passant_target,
        !.en_passant_expires =
            IF is_double_push(self, start, end)
            THEN self.turn_counter
            ELSE self.en_passant_expires]

_move_piece(self, start, end) ==
    [self EXCEPT
        !.board = board_after_move(self, start, end),
        !.castling_rights = rights_after_move(self, start, end),
        !.en_passant_target =
            IF is_double_push(self, start, end)
            THEN <<(start[1] + end[1]) \div 2, start[2]>>
            ELSE self.en_passant_target,
        !.en_passant_expires =
            IF is_double_push(self, start, end)
            THEN self.turn_counter + 1
            ELSE self.en_passant_expires]

\* The fullmove number advances after white's move.
_switch_player_counts_white(self) ==
    LET turn_counter == self.turn_counter + 1
        expired == self.en_passant_expires # NoneInt /\ self.en_passant_expires < turn_counter
    IN  [self EXCEPT
            !.turn_counter = turn_counter,
            !.en_passant_target = IF expired THEN NonePos ELSE self.en_passant_target,
            !.en_passant_expires = IF expired THEN NoneInt ELSE self.en_passant_expires,
            !.current_player = opponent_of(self.current_player),
            !.fullmove_number = IF self.current_player = "white"
                                THEN self.fullmove_number + 1
                                ELSE self.fullmove_number]

\* The capture window is never closed.
_switch_player_keeps_window(self) ==
    [self EXCEPT
        !.turn_counter = self.turn_counter + 1,
        !.current_player = opponent_of(self.current_player),
        !.fullmove_number = IF self.current_player = "white"
                            THEN self.fullmove_number
                            ELSE self.fullmove_number + 1]

_switch_player(self) ==
    LET turn_counter == self.turn_counter + 1
        expired == self.en_passant_expires # NoneInt /\ self.en_passant_expires < turn_counter
    IN  [self EXCEPT
            !.turn_counter = turn_counter,
            !.en_passant_target = IF expired THEN NonePos ELSE self.en_passant_target,
            !.en_passant_expires = IF expired THEN NoneInt ELSE self.en_passant_expires,
            !.current_player = opponent_of(self.current_player),
            !.fullmove_number = IF self.current_player = "white"
                                THEN self.fullmove_number
                                ELSE self.fullmove_number + 1]

\* ---------------------------------------------------------------- status
\* No position is ever recognised as mate.
is_checkmate_never(self, color) == FALSE

is_checkmate(self, color) ==
    /\ is_in_check(self, color)
    /\ \A p \in Pos :
          (self.board[p] # None /\ self.board[p][1] = color)
              => get_valid_moves(self, p[1], p[2]) = {}

is_stalemate(self, color) ==
    /\ ~ is_in_check(self, color)
    /\ \A p \in Pos :
          (self.board[p] # None /\ self.board[p][1] = color)
              => get_valid_moves(self, p[1], p[2]) = {}

\* The mated side is recorded as the winner.
_update_status_winner_is_mated(self) ==
    IF is_in_check(self, self.current_player)
    THEN IF is_checkmate(self, self.current_player)
         THEN [self EXCEPT !.status = "checkmate", !.game_over = TRUE,
                           !.winner = self.current_player]
         ELSE [self EXCEPT !.status = "check", !.game_over = FALSE, !.winner = "none"]
    ELSE IF is_stalemate(self, self.current_player)
         THEN [self EXCEPT !.status = "stalemate", !.game_over = TRUE, !.winner = "none"]
         ELSE [self EXCEPT !.status = "none", !.game_over = FALSE, !.winner = "none"]

\* A side that is not in check is never found stalemated.
_update_status_no_stalemate(self) ==
    IF is_in_check(self, self.current_player)
    THEN IF is_checkmate(self, self.current_player)
         THEN [self EXCEPT !.status = "checkmate", !.game_over = TRUE,
                           !.winner = opponent_of(self.current_player)]
         ELSE [self EXCEPT !.status = "check", !.game_over = FALSE, !.winner = "none"]
    ELSE [self EXCEPT !.status = "none", !.game_over = FALSE, !.winner = "none"]

_update_status(self) ==
    IF is_in_check(self, self.current_player)
    THEN IF is_checkmate(self, self.current_player)
         THEN [self EXCEPT !.status = "checkmate", !.game_over = TRUE,
                           !.winner = opponent_of(self.current_player)]
         ELSE [self EXCEPT !.status = "check", !.game_over = FALSE, !.winner = "none"]
    ELSE IF is_stalemate(self, self.current_player)
         THEN [self EXCEPT !.status = "stalemate", !.game_over = TRUE, !.winner = "none"]
         ELSE [self EXCEPT !.status = "none", !.game_over = FALSE, !.winner = "none"]

\* ---------------------------------------------------------------- apply_move
\* Only the destination is validated.
apply_move_error_only_target(self, start, end) ==
    IF end \notin get_valid_moves(self, start[1], start[2])
    THEN "Der Zug ist nicht legal."
    ELSE ""

\* The piece on start may belong to either side.
apply_move_error_any_colour(self, start, end) ==
    IF self.game_over THEN "Das Spiel ist bereits beendet."
    ELSE IF ~ is_on_board(start[1], start[2]) \/ self.board[start] = None
         THEN "Am Startfeld befindet sich keine Figur."
    ELSE IF end \notin get_valid_moves(self, start[1], start[2])
         THEN "Der Zug ist nicht legal."
    ELSE ""

\* The ValueError apply_move raises for (start, end), "" when it raises none.
apply_move_error(self, start, end) ==
    IF self.game_over THEN "Das Spiel ist bereits beendet."
    ELSE IF ~ is_on_board(start[1], start[2]) \/ self.board[start] = None
         THEN "Am Startfeld befindet sich keine Figur."
    ELSE IF self.board[start][1] # self.current_player
         THEN "Die ausgewaehlte Figur gehoert nicht dem Spieler am Zug."
    ELSE IF end \notin get_valid_moves(self, start[1], start[2])
         THEN "Der Zug ist nicht legal."
    ELSE ""

\* Only pawn moves reset the clock.
halfmove_after_move_pawn_only(self, start, end) ==
    IF self.board[start][2] = "P" THEN 0 ELSE self.halfmove_clock + 1

halfmove_after_move(self, start, end) ==
    LET p_type == self.board[start][2]
        capture == self.board[end] # None \/ is_en_passant_capture(self, start, end)
    IN  IF p_type = "P" \/ capture THEN 0 ELSE self.halfmove_clock + 1

apply_move_commit(self, start, end) ==
    LET moved_game == _move_piece(self, start, end)
        clocked == [moved_game EXCEPT !.halfmove_clock = halfmove_after_move(self, start, end)]
    IN  CHOOSE updated \in {_update_status(switched) : switched \in {_switch_player(clocked)}} :
            TRUE

NoResult ==
    [op |-> "init", raised |-> FALSE, status |-> "none", game_over |-> FALSE,
     current_player |-> "white", winner |-> "none", in_check |-> FALSE,
     just_finished |-> FALSE]

MoveResult(self, previous_game_over) ==
    [op |-> "apply_move", raised |-> FALSE, status |-> self.status,
     game_over |-> self.game_over, current_player |-> self.current_player,
     winner |-> self.winner, in_check |-> self.status = "check",
     just_finished |-> self.game_over /\ ~ previous_game_over]

Raised(op) == [NoResult EXCEPT !.op = op, !.raised = TRUE]

\* apply_move(start, end): the game object as the call leaves it, whether the
\* call raised, and the MoveResult it returned.
apply_move(self, start, end) ==
    IF apply_move_error(self, start, end) # ""
    THEN [raised |-> TRUE, self |-> self, result |-> Raised("apply_move")]
    ELSE CHOOSE outcome \in
            {[raised |-> FALSE, self |-> committed,
              result |-> MoveResult(committed, self.game_over)] :
                committed \in {apply_move_commit(self, start, end)}} : TRUE

\* Ghost history: the home squares of kings and rooks that a committed move
\* has left or landed on (the original piece moved away or was captured).
HomeSquares == {<<7, 4>>, <<7, 0>>, <<7, 7>>, <<0, 4>>, <<0, 0>>, <<0, 7>>}

touched_squares(self, start, end) ==
    ({start, end} \cup
     (IF is_castling_move(self, start, end)
      THEN {<<start[1], IF end[2] = 6 THEN 7 ELSE 0>>} ELSE {}))
    \cap HomeSquares

\* ---------------------------------------------------------------- FEN import
\* A FEN string is a sequence of one-character strings.
Whitespace == {" ", "\t", "\n", "\r"}
Digits == <<"0", "1", "2", "3", "4", "5", "6", "7", "8", "9">>
FILES == <<"a", "b", "c", "d", "e", "f", "g", "h">>

is_digit(char) == \E i \in 1..10 : Digits[i] = char
digit_value(char) == (CHOOSE i \in 1..10 : Digits[i] = char) - 1

CHAR_TO_PIECE(char) ==
    IF char = "P" THEN <<"white", "P">> ELSE IF char = "N" THEN <<"white", "N">>
    ELSE IF char = "B" THEN <<"white", "B">> ELSE IF char = "R" THEN <<"white", "R">>
    ELSE IF char = "Q" THEN <<"white", "Q">> ELSE IF char = "K" THEN <<"white", "K">>
    ELSE IF char = "p" THEN <<"black", "P">> ELSE IF char = "n" THEN <<"black", "N">>
    ELSE IF char = "b" THEN <<"black", "B">> ELSE IF char = "r" THEN <<"black", "R">>
    ELSE IF char = "q" THEN <<"black", "Q">> ELSE IF char = "k" THEN <<"black", "K">>
    ELSE None

\* str.split(sep): the pieces between separators, empty pieces included.
RECURSIVE split_on(_, _, _, _)
split_on(text, sep, i, current) ==
    IF i > Len(text) THEN <<current>>
    ELSE IF text[i] = sep THEN <<current>> \o split_on(text, sep, i + 1, <<>>)
    ELSE split_on(text, sep, i + 1, Append(current, text[i]))

\* str.strip().split(): the maximal runs of non-whitespace characters.
RECURSIVE split_whitespace(_, _, _)
split_whitespace(text, i, current) ==
    IF i > Len(text) THEN (IF current = <<>> THEN <<>> ELSE <<current>>)
    ELSE IF text[i] \in Whitespace
         THEN (IF current = <<>> THEN <<>> ELSE <<current>>)
              \o split_whitespace(text, i + 1, <<>>)
    ELSE split_whitespace(text, i + 1, Append(current, text[i]))

\* int(text): "error" stands for the ValueError int() raises.
RECURSIVE decimal_value(_, _, _)
decimal_value(text, i, acc) ==
    IF i > Len(text) THEN acc
    ELSE decimal_value(text, i + 1, 10 * acc + digit_value(text[i]))

int_ok(text) ==
    LET body == IF text # <<>> /\ text[1] \in {"+", "-"} THEN Tail(text) ELSE text
    IN  body # <<>> /\ \A i \in 1..Len(body) : is_digit(body[i])

int_of(text) ==
    IF text[1] = "-" THEN 0 - decimal_value(Tail(text), 1, 0)
    ELSE IF text[1] = "+" THEN decimal_value(Tail(text), 1, 0)
    ELSE decimal_value(text, 1, 0)

\* One rank of the placement: the squares written and the final column, or
\* the error the loop raises.
RECURSIVE parse_rank(_, _, _, _)
parse_rank(rank, i, col, cells) ==
    IF i > Len(rank)
    THEN [ok |-> col = 8, cells |-> cells]
    ELSE IF is_digit(rank[i])
         THEN parse_rank(rank, i + 1, col + digit_value(rank[i]), cells)
    ELSE IF CHAR_TO_PIECE(rank[i]) = None THEN [ok |-> FALSE, cells |-> cells]
    ELSE IF col >= 8 THEN [ok |-> FALSE, cells |-> cells]
    ELSE parse_rank(rank, i + 1, col + 1, cells @@ (col :> CHAR_TO_PIECE(rank[i])))

\* The squares a rank describes are not counted.
parse_placement_unchecked(ranks) ==
    LET parsed == [row \in 1..8 |-> parse_rank(ranks[row], 1, 0, <<>>)]
    IN  [ok |-> TRUE,
         board |-> [p \in Pos |->
                      IF p[2] \in DOMAIN parsed[p[1] + 1].cells
                      THEN parsed[p[1] + 1].cells[p[2]]
                      ELSE None]]

parse_placement(ranks) ==
    CHOOSE placement \in
        {[ok |-> \A row \in 1..8 : parsed[row].ok,
          board |-> [p \in Pos |->
                       IF p[2] \in DOMAIN parsed[p[1] + 1].cells
                       THEN parsed[p[1] + 1].cells[p[2]]
                       ELSE None]] :
            parsed \in {[row \in 1..8 |-> parse_rank(ranks[row], 1, 0, <<>>)]}} : TRUE

notation_ok(square) ==
    /\ Len(square) = 2
    /\ \E i \in 1..8 : FILES[i] = square[1]
    /\ is_digit(square[2]) /\ digit_value(square[2]) \in 1..8

notation_to_square(square) ==
    <<8 - digit_value(square[2]), (CHOOSE i \in 1..8 : FILES[i] = square[1]) - 1>>

contains(text, char) == \E i \in 1..Len(text) : text[i] = char

\* The parsing half of import_fen: what the function reads out of the string
\* and the statement at which it raises ("" when it raises nowhere).
read_fen(fen) ==
    LET parts == split_whitespace(fen, 1, <<>>)
        ranks == split_on(parts[1], "/", 1, <<>>)
        parsed == parse_placement(ranks)
        active_color == parts[2]
        castling == parts[3]
        en_passant == parts[4]
        halfmove == parts[5]
        fullmove == parts[6]
        raises ==
            IF Len(parts) # 6 THEN "parts"
            ELSE IF Len(ranks) # 8 THEN "ranks"
            ELSE IF ~ parsed.ok THEN "placement"
            ELSE IF ~ int_ok(fullmove) THEN "fullmove"
            ELSE IF ~ int_ok(halfmove) THEN "halfmove"
            ELSE IF en_passant # <<"-">> /\ ~ notation_ok(en_passant) THEN "en_passant"
            ELSE ""
        stored == raises \notin {"parts", "ranks", "placement"}
    IN  [raises |-> raises,
         board |-> IF stored THEN parsed.board ELSE [p \in Pos |-> None],
         current_player |-> IF stored /\ active_color # <<"w">> THEN "black" ELSE "white",
         castling_rights |->
            [c \in Colors |-> [s \in {"K", "Q"} |->
                stored /\ contains(castling, IF c = "white" THEN s
                                             ELSE IF s = "K" THEN "k" ELSE "q")]],
         fullmove_number |-> IF stored /\ int_ok(fullmove) THEN int_of(fullmove) ELSE 0,
         halfmove_clock |-> IF stored /\ int_ok(halfmove) THEN int_of(halfmove) ELSE 0,
         en_passant_target |->
            IF raises = "" /\ en_passant # <<"-">>
            THEN notation_to_square(en_passant) ELSE NonePos]

\* The assigning half of import_fen: the game object as the call leaves it and
\* whether the call raised.  Assignments made before a late ValueError stay.
store_fen(self, fields) ==
    LET with_board ==
            [self EXCEPT !.board = fields.board,
                         !.current_player = fields.current_player,
                         !.castling_rights = fields.castling_rights]
        with_fullmove == [with_board EXCEPT !.fullmove_number = fields.fullmove_number]
        turn_counter == 2 * (fields.fullmove_number - 1)
                        + (IF fields.current_player = "black" THEN 1 ELSE 0)
        with_counters ==
            [with_fullmove EXCEPT !.halfmove_clock = fields.halfmove_clock,
                                  !.turn_counter = turn_counter]
        with_en_passant ==
            [with_counters EXCEPT
                !.en_passant_target = fields.en_passant_target,
                !.en_passant_expires =
                    IF fields.en_passant_target # NonePos THEN turn_counter ELSE NoneInt,
                !.game_over = FALSE,
                !.status = "none",
                !.winner = "none"]
    IN  IF fields.raises \in {"parts", "ranks", "placement"}
        THEN [raised |-> TRUE, self |-> self]
        ELSE IF fields.raises = "fullmove" THEN [raised |-> TRUE, self |-> with_board]
        ELSE IF fields.raises = "halfmove" THEN [raised |-> TRUE, self |-> with_fullmove]
        ELSE IF fields.raises = "en_passant" THEN [raised |-> TRUE, self |-> with_counters]
        ELSE [raised |-> FALSE, self |-> _update_status(with_en_passant)]

import_fen(self, fen) == store_fen(self, read_fen(fen))

\* ---------------------------------------------------------------- FEN export
PIECE_TO_CHAR(piece) ==
    IF piece = <<"white", "P">> THEN "P" ELSE IF piece = <<"white", "N">> THEN "N"
    ELSE IF piece = <<"white", "B">> THEN "B" ELSE IF piece = <<"white", "R">> THEN "R"
    ELSE IF piece = <<"white", "Q">> THEN "Q" ELSE IF piece = <<"white", "K">> THEN "K"
    ELSE IF piece = <<"black", "P">> THEN "p" ELSE IF piece = <<"black", "N">> THEN "n"
    ELSE IF piece = <<"black", "B">> THEN "b" ELSE IF piece = <<"black", "R">> THEN "r"
    ELSE IF piece = <<"black", "Q">> THEN "q" ELSE "k"

\* The rank the square's row is written as counts from the wrong side.
square_to_notation_row_as_rank(position) ==
    <<FILES[position[2] + 1], Digits[position[1] + 2]>>

square_to_notation(position) ==
    <<FILES[position[2] + 1], Digits[8 - position[1] + 1]>>

\* str(n) for an integer n.
RECURSIVE digits_of(_)
digits_of(n) ==
    IF n < 10 THEN <<Digits[n + 1]>>
    ELSE Append(digits_of(n \div 10), Digits[(n % 10) + 1])

str(n) == IF n < 0 THEN <<"-">> \o digits_of(0 - n) ELSE digits_of(n)

\* One rank of the placement, from column col on, with `empty` empty squares
\* counted so far.
RECURSIVE export_rank(_, _, _, _)
export_rank(board, row, col, empty) ==
    LET run == IF empty > 0 THEN str(empty) ELSE <<>>
    IN  IF col = 8 THEN run
        ELSE IF board[<<row, col>>] = None THEN export_rank(board, row, col + 1, empty + 1)
        ELSE run \o <<PIECE_TO_CHAR(board[<<row, col>>])>>
                 \o export_rank(board, row, col + 1, 0)

\* sep.join(parts)
RECURSIVE join(_, _)
join(sep, parts) ==
    IF parts = <<>> THEN <<>>
    ELSE IF Len(parts) = 1 THEN parts[1]
    ELSE parts[1] \o <<sep>> \o join(sep, Tail(parts))

export_castling(self) ==
    LET castling ==
            (IF self.castling_rights["white"]["K"] THEN <<"K">> ELSE <<>>)
            \o (IF self.castling_rights["white"]["Q"] THEN <<"Q">> ELSE <<>>)
            \o (IF self.castling_rights["black"]["K"] THEN <<"k">> ELSE <<>>)
            \o (IF self.castling_rights["black"]["Q"] THEN <<"q">> ELSE <<>>)
    IN  IF castling = <<>> THEN <<"-">> ELSE castling

\* The en-passant field is always written as "-".
export_en_passant_dash(self) == <<"-">>

export_en_passant(self) ==
    IF /\ self.en_passant_target # NonePos
       /\ self.en_passant_expires # NoneInt
       /\ self.en_passant_expires = self.turn_counter
    THEN square_to_notation(self.en_passant_target)
    ELSE <<"-">>

export_fen(self) ==
    LET ranks == [row \in 1..8 |-> export_rank(self.board, row - 1, 0, 0)]
        placement == join("/", ranks)
        active_color == IF self.current_player = "white" THEN <<"w">> ELSE <<"b">>
    IN  join(" ", <<placement, active_color, export_castling(self),
                    export_en_passant(self), str(self.halfmove_clock),
                    str(self.fullmove_number)>>)

\* ---------------------------------------------------------------- bounds and inputs
\* The largest max_retries a Strategist is built with.
MaxRetries == 2

\* With AI players the controller commits moves until the ply counter reaches
\* MaxAiPly, and the players start MaxThreads worker threads in all.
MaxAiPly == 2
MaxThreads == 2

\* apply_move is called until the ply counter reaches MaxPly.
MaxPly == 9

\* import_fen is called while the ply counter is at most MaxImportPly.
MaxImportPly == 2

\* Algebraic square names: file letter a..h is column 0..7, rank n is row 8 - n.
sq(file, rank) == <<8 - rank, file>>
mv(f1, r1, f2, r2) == <<sq(f1, r1), sq(f2, r2)>>

\* The (start, end) pairs callers pass to apply_move.
WhiteInputs ==
    {mv(4, 2, 4, 4), mv(4, 4, 4, 5), mv(4, 5, 5, 6), mv(5, 6, 6, 7), mv(6, 7, 7, 8),
     mv(6, 1, 5, 3), mv(5, 1, 4, 2), mv(4, 1, 6, 1), mv(4, 1, 5, 1), mv(5, 1, 4, 1),
     mv(5, 2, 5, 3), mv(6, 2, 6, 4), mv(4, 5, 3, 6), mv(4, 1, 2, 1)}

BlackInputs ==
    {mv(3, 7, 3, 5), mv(5, 7, 5, 5), mv(6, 8, 5, 6), mv(4, 7, 4, 5), mv(5, 8, 4, 7),
     mv(4, 8, 6, 8), mv(4, 8, 5, 8), mv(5, 8, 4, 8), mv(3, 8, 7, 4),
     mv(4, 8, 2, 8), mv(5, 4, 6, 3)}

Inputs == WhiteInputs \cup BlackInputs

\* The position strings callers pass to import_fen.
\* "7k/5Q2/6K1/8/8/8/8/8 b - - 0 1"
FenStalemate ==
    <<"7", "k", "/", "5", "Q", "2", "/", "6", "K", "1", "/", "8", "/", "8", "/", "8",
      "/", "8", "/", "8", " ", "b", " ", "-", " ", "-", " ", "0", " ", "1">>

\* "r3k2r/pppppppp/8/8/8/8/PPPPPPPP/R3K2R w KQkq - 0 4"
FenCastling ==
    <<"r", "3", "k", "2", "r", "/", "p", "p", "p", "p", "p", "p", "p", "p", "/", "8",
      "/", "8", "/", "8", "/", "8", "/", "P", "P", "P", "P", "P", "P", "P", "P", "/",
      "R", "3", "K", "2", "R", " ", "w", " ", "K", "Q", "k", "q", " ", "-", " ", "0",
      " ", "4">>

\* "7k/3p4/8/K3P2r/8/8/8/8 b - - 0 4"
FenPinnedEnPassant ==
    <<"7", "k", "/", "3", "p", "4", "/", "8", "/", "K", "3", "P", "2", "r", "/", "8",
      "/", "8", "/", "8", "/", "8", " ", "b", " ", "-", " ", "-", " ", "0", " ", "4">>

\* "4k3/8/8/8/5p2/8/6P1/4K3 w - - 0 4"
FenBlackEnPassant ==
    <<"4", "k", "3", "/", "8", "/", "8", "/", "8", "/", "5", "p", "2", "/", "8", "/",
      "6", "P", "1", "/", "4", "K", "3", " ", "w", " ", "-", " ", "-", " ", "0", " ",
      "4">>

\* "8/8/8/8 w - - 0 1"
FenTooFewRanks ==
    <<"8", "/", "8", "/", "8", "/", "8", " ", "w", " ", "-", " ", "-", " ", "0", " ",
      "1">>

\* "7k/5Q2/6K1/8/8/8/8/8 b - - x 1"
FenBadHalfmove ==
    <<"7", "k", "/", "5", "Q", "2", "/", "6", "K", "1", "/", "8", "/", "8", "/", "8",
      "/", "8", "/", "8", " ", "b", " ", "-", " ", "-", " ", "x", " ", "1">>

\* "8/8/8/8/8/8/8/R3K3 b - - 0 5"
FenNoBlackKing ==
    <<"8", "/", "8", "/", "8", "/", "8", "/", "8", "/", "8", "/", "8", "/",
      "R", "3", "K", "3", " ", "b", " ", "-", " ", "-", " ", "0", " ", "5">>

\* "k6k/8/8/8/8/8/8/4K2R b - - 0 5"
FenTwoBlackKings ==
    <<"k", "6", "k", "/", "8", "/", "8", "/", "8", "/", "8", "/", "8", "/", "8", "/",
      "4", "K", "2", "R", " ", "b", " ", "-", " ", "-", " ", "0", " ", "5">>

\* "3qk3/8/8/8/7P/8/8/4K3 b - - 5 3"
FenQueenCapture ==
    <<"3", "q", "k", "3", "/", "8", "/", "8", "/", "8", "/", "7", "P", "/", "8", "/",
      "8", "/", "4", "K", "3", " ", "b", " ", "-", " ", "-", " ", "5", " ", "3">>

\* "rnbqkbnr/pppppppp/8/8/4P3/8/PPPPPPPP/RNBQKBNR b KQkq e3 0 1"
FenAfterE4 ==
    <<"r", "n", "b", "q", "k", "b", "n", "r", "/", "p", "p", "p", "p", "p", "p", "p",
      "p", "/", "8", "/", "8", "/", "4", "P", "3", "/", "8", "/", "P", "P", "P", "P",
      "P", "P", "P", "P", "/", "R", "N", "B", "Q", "K", "B", "N", "R", " ", "b", " ",
      "K", "Q", "k", "q", " ", "e", "3", " ", "0", " ", "1">>

\* "r3k2r/pppppppp/44/8/8/08/PPPPPPPP/R3K2R B qkQK - +7 04"
FenUnusual ==
    <<"r", "3", "k", "2", "r", "/", "p", "p", "p", "p", "p", "p", "p", "p", "/",
      "4", "4", "/", "8", "/", "8", "/", "0", "8", "/", "P", "P", "P", "P", "P", "P",
      "P", "P", "/", "R", "3", "K", "2", "R", " ", "B", " ", "q", "k", "Q", "K", " ",
      "-", " ", "+", "7", " ", "0", "4">>

\* "8/8/8/8/8/8/8/8 w - - 0"
FenFiveFields ==
    <<"8", "/", "8", "/", "8", "/", "8", "/", "8", "/", "8", "/", "8", "/", "8", " ",
      "w", " ", "-", " ", "-", " ", "0">>

\* "7k/5Q2/6K1/8/8/8/8/7 b - - 0 1"
FenShortRank ==
    <<"7", "k", "/", "5", "Q", "2", "/", "6", "K", "1", "/", "8", "/", "8", "/", "8",
      "/", "8", "/", "7", " ", "b", " ", "-", " ", "-", " ", "0", " ", "1">>

\* "7k/5Q2/6K1/8/8/8/8/54 b - - 0 1"
FenLongRank ==
    <<"7", "k", "/", "5", "Q", "2", "/", "6", "K", "1", "/", "8", "/", "8", "/", "8",
      "/", "8", "/", "5", "4", " ", "b", " ", "-", " ", "-", " ", "0", " ", "1">>

\* "7k/5Q2/6K1/8/8/8/8/8p b - - 0 1"
FenPieceBeyondRank ==
    <<"7", "k", "/", "5", "Q", "2", "/", "6", "K", "1", "/", "8", "/", "8", "/", "8",
      "/", "8", "/", "8", "p", " ", "b", " ", "-", " ", "-", " ", "0", " ", "1">>

\* "7k/5Q2/6K1/8/8/8/8/7x b - - 0 1"
FenBadLetter ==
    <<"7", "k", "/", "5", "Q", "2", "/", "6", "K", "1", "/", "8", "/", "8", "/", "8",
      "/", "8", "/", "7", "x", " ", "b", " ", "-", " ", "-", " ", "0", " ", "1">>

\* "4k3/8/8/8/8/8/8/R3K2r w Q - 0 1"
FenRookOnBackRank ==
    <<"4", "k", "3", "/", "8", "/", "8", "/", "8", "/", "8", "/", "8",
        "/", "8", "/", "R", "3", "K", "2", "r", " ", "w", " ", "Q", " ",
        "-", " ", "0", " ", "1">>

\* "3q4/8/8/8/8/8/8/4K3 w - - 0 1"
FenKinglessWithQueen ==
    <<"3", "q", "4", "/", "8", "/", "8", "/", "8", "/", "8", "/", "8",
        "/", "8", "/", "4", "K", "3", " ", "w", " ", "-", " ", "-", " ",
        "0", " ", "1">>

FenInputs ==
    {FenStalemate,
     FenFiveFields,
     FenShortRank,
     FenLongRank,
     FenPieceBeyondRank,
     FenBadLetter,
     FenAfterE4,
     FenUnusual,
     FenQueenCapture,
     FenCastling,
     FenPinnedEnPassant,
     FenBlackEnPassant,
     FenNoBlackKing,
     FenTwoBlackKings,
     FenTooFewRanks,
     FenBadHalfmove,
     FenRookOnBackRank,
     FenKinglessWithQueen}


\* ======================================================================
\* The move-suggestion pipeline: src/ai/move_parser.py, src/ai/strategist.py
\* ======================================================================
\* A provider's suggestion is an arbitrary Python value.  It is modelled as a
\* record: `type` is its Python type, `text` the characters of a str, `json`
\* what json.loads makes of that str (<<>> for JSONDecodeError, <<value>>
\* otherwise), `items` the <<key, value>> pairs of a dict in insertion order
\* or the elements of a list.  Type "move" is a sequence of two sequences of
\* two ints, kept in `items` as <<start, end>>.  A value that is not a str is
\* formatted into a move text as "?": its repr is never a promotion letter.
PyValue(type, text, json, items) ==
    [type |-> type, text |-> text, json |-> json, items |-> items]

PyNone == PyValue("NoneType", <<>>, <<>>, <<>>)
PyInt == PyValue("int", <<>>, <<>>, <<>>)
PyStr(text) == PyValue("str", text, <<>>, <<>>)
PyJson(text, value) == PyValue("str", text, <<value>>, <<>>)
PyDict(items) == PyValue("dict", <<>>, <<>>, items)
PyList(items) == PyValue("list", <<>>, <<>>, items)
PyMove(start, end) == PyValue("move", <<>>, <<>>, <<start, end>>)

\* bool(value)
truthy(value) ==
    CASE value.type = "NoneType" -> FALSE
      [] value.type = "str" -> value.text # <<>>
      [] value.type \in {"dict", "list"} -> value.items # <<>>
      [] OTHER -> TRUE

\* dict.get(key): the value stored under the key, None without it.
dict_has(value, key) == \E i \in 1..Len(value.items) : value.items[i][1] = key

dict_get(value, key) ==
    IF dict_has(value, key)
    THEN value.items[CHOOSE i \in 1..Len(value.items) : value.items[i][1] = key][2]
    ELSE PyNone

UpperCase ==
    <<"A", "B", "C", "D", "E", "F", "G", "H", "I", "J", "K", "L", "M",
      "N", "O", "P", "Q", "R", "S", "T", "U", "V", "W", "X", "Y", "Z">>
LowerCase ==
    <<"a", "b", "c", "d", "e", "f", "g", "h", "i", "j", "k", "l", "m",
      "n", "o", "p", "q", "r", "s", "t", "u", "v", "w", "x", "y", "z">>

\* str.lower()
lower(text) ==
    [i \in 1..Len(text) |->
        IF \E k \in 1..26 : UpperCase[k] = text[i]
        THEN LowerCase[CHOOSE k \in 1..26 : UpperCase[k] = text[i]]
        ELSE text[i]]

\* str.strip()
strip(text) ==
    LET inner == {i \in 1..Len(text) : text[i] \notin Whitespace}
    IN  IF inner = {} THEN <<>>
        ELSE SubSeq(text, CHOOSE i \in inner : \A j \in inner : i <= j,
                          CHOOSE i \in inner : \A j \in inner : i >= j)

\* _MOVE_RE.match(text): ^[a-h][1-8][a-h][1-8](?:[qrbn])?$ ; in Python "$"
\* also matches just before a newline that ends the string.
_MOVE_RE(text) ==
    LET body == IF text # <<>> /\ text[Len(text)] = "\n"
                THEN SubSeq(text, 1, Len(text) - 1) ELSE text
    IN  /\ Len(body) \in {4, 5}
        /\ notation_ok(SubSeq(body, 1, 2))
        /\ notation_ok(SubSeq(body, 3, 4))
        /\ Len(body) = 5 => body[5] \in {"q", "r", "b", "n"}

\* _normalise_suggestion(suggestion): the move text found in the value, <<>>
\* when none is found.
RECURSIVE _normalise_suggestion(_)
RECURSIVE first_candidate(_, _)
first_candidate(values, i) ==
    IF i > Len(values) THEN <<>>
    ELSE LET candidate == _normalise_suggestion(values[i])
         IN  IF candidate # <<>> THEN candidate ELSE first_candidate(values, i + 1)

_normalise_suggestion(suggestion) ==
    LET Keys == <<<<"m", "o", "v", "e">>,
                  <<"c", "a", "n", "d", "i", "d", "a", "t", "e">>,
                  <<"b", "e", "s", "t", "_", "m", "o", "v", "e">>,
                  <<"r", "e", "s", "u", "l", "t">>,
                  <<"o", "u", "t", "p", "u", "t">>>>
        present == {k \in 1..5 : dict_has(suggestion, Keys[k])}
        either(a, b) == IF truthy(dict_get(suggestion, a)) THEN dict_get(suggestion, a)
                        ELSE dict_get(suggestion, b)
        from_square == either(<<"f", "r", "o", "m">>, <<"s", "t", "a", "r", "t">>)
        to_square == either(<<"t", "o">>, <<"e", "n", "d">>)
        promotion == dict_get(suggestion, <<"p", "r", "o", "m", "o", "t", "i", "o", "n">>)
        text == strip(suggestion.text)
    IN  CASE suggestion.type = "NoneType" -> <<>>
          [] suggestion.type = "str" ->
                IF _MOVE_RE(lower(text)) THEN text
                ELSE IF suggestion.json = <<>> THEN <<>>
                ELSE _normalise_suggestion(suggestion.json[1])
          [] suggestion.type = "dict" ->
                IF present # {}
                THEN _normalise_suggestion(
                        dict_get(suggestion, Keys[CHOOSE k \in present : \A j \in present : k <= j]))
                ELSE IF from_square.type = "str" /\ to_square.type = "str"
                THEN from_square.text \o to_square.text
                     \o (IF ~ truthy(promotion) THEN <<>>
                         ELSE IF promotion.type = "str" THEN promotion.text
                         ELSE <<"?">>)
                ELSE first_candidate(
                        [i \in 1..Len(suggestion.items) |-> PyStr(suggestion.items[i][1])], 1)
          [] suggestion.type = "list" -> first_candidate(suggestion.items, 1)
          [] OTHER -> <<>>

\* _algebraic_to_position(square)
_algebraic_to_position(square) ==
    <<8 - digit_value(square[2]), (CHOOSE i \in 1..8 : FILES[i] = square[1]) - 1>>

\* The result of a call that may raise: the exception's class ("" when the
\* call returned) and the move returned.
Returned(move) == [error |-> "", move |-> move]
Raises(error) == [error |-> error, move |-> <<NonePos, NonePos>>]

\* The membership test on the legal-move list is left out.
parse_move_unlisted(self, suggestion, legal_moves) ==
    LET move_str == lower(_normalise_suggestion(suggestion))
        start_pos == _algebraic_to_position(SubSeq(move_str, 1, 2))
        end_pos == _algebraic_to_position(SubSeq(move_str, 3, 4))
    IN  IF move_str = <<>> THEN Raises("IllegalMoveError")
        ELSE IF ~ _MOVE_RE(move_str) THEN Raises("IllegalMoveError")
        ELSE IF SubSeq(move_str, 5, Len(move_str)) # <<>> THEN Raises("IllegalMoveError")
        ELSE IF end_pos \notin get_valid_moves(self, start_pos[1], start_pos[2])
        THEN Raises("IllegalMoveError")
        ELSE Returned(<<start_pos, end_pos>>)

\* parse_move(game, suggestion, legal_moves=...); legal_moves is the set of
\* the strings in the list.  _split_move is the second and third test.
parse_move(self, suggestion, legal_moves) ==
    LET move_str == lower(_normalise_suggestion(suggestion))
        normalised_candidates == {lower(move) : move \in legal_moves}
        start_pos == _algebraic_to_position(SubSeq(move_str, 1, 2))
        end_pos == _algebraic_to_position(SubSeq(move_str, 3, 4))
    IN  IF move_str = <<>> THEN Raises("IllegalMoveError")
        ELSE IF normalised_candidates # {} /\ move_str \notin normalised_candidates
        THEN Raises("IllegalMoveError")
        ELSE IF ~ _MOVE_RE(move_str) THEN Raises("IllegalMoveError")
        ELSE IF SubSeq(move_str, 5, Len(move_str)) # <<>> THEN Raises("IllegalMoveError")
        ELSE IF end_pos \notin get_valid_moves(self, start_pos[1], start_pos[2])
        THEN Raises("IllegalMoveError")
        ELSE Returned(<<start_pos, end_pos>>)


\* ---------------------------------------------------------------- Strategist
\* _collect_legal_moves(game): the notation of every move get_valid_moves
\* gives for a piece of the side to move.
_collect_legal_moves(self) ==
    UNION {{square_to_notation(position) \o square_to_notation(target) :
                target \in get_valid_moves(self, position[1], position[2])} :
           position \in {p \in Pos : self.board[p] # None
                                     /\ self.board[p][1] = self.current_player}}

\* _analyse(game, ...): the request handed to the provider.
_analyse(self) == [game |-> self, legal_moves |-> _collect_legal_moves(self)]

_looks_like_move(candidate) == candidate.type = "move"

\* _normalise_provider_output(raw): the suggestions in the provider's output.
_normalise_provider_output(raw) ==
    IF _looks_like_move(raw) THEN <<raw>>
    ELSE IF raw.type = "list" THEN raw.items
    ELSE <<raw>>

\* _interpret_suggestion(suggestion, request); board.get gives None, and
\* get_valid_moves the empty list, for coordinates off the board.
_interpret_suggestion(suggestion, request) ==
    IF _looks_like_move(suggestion)
    THEN LET start == suggestion.items[1]
             end == suggestion.items[2]
             valid_targets == IF is_on_board(start[1], start[2])
                              THEN get_valid_moves(request.game, start[1], start[2])
                              ELSE {}
         IN  IF end \notin valid_targets THEN Raises("IllegalMoveError")
             ELSE Returned(<<start, end>>)
    ELSE parse_move(request.game, suggestion, request.legal_moves)

\* _score_move(game, move), in tenths.
_score_move(self, move) ==
    10 + (IF self.board[move[2]] # None THEN 5 ELSE 0)
       + (IF move[2][1] \in 2..5 /\ move[2][2] \in 2..5 THEN 1 ELSE 0)

\* _score_candidates(request) once the provider has answered with raw: one
\* Candidate per suggestion, with score -1.0 and no move for a suggestion
\* that _interpret_suggestion rejects.
_score_candidates(request, raw) ==
    LET suggestions == _normalise_provider_output(raw)
    IN  [i \in 1..Len(suggestions) |->
            LET interpreted == _interpret_suggestion(suggestions[i], request)
            IN  IF interpreted.error # ""
                THEN [move |-> interpreted.move, valid |-> FALSE, score |-> -10]
                ELSE [move |-> interpreted.move, valid |-> TRUE,
                      score |-> _score_move(request.game, interpreted.move)]]

\* _decide(request, candidates): max() keeps the first candidate of the
\* highest score.  No candidate at all is the IllegalMoveError that
\* _score_candidates raises.
_decide(candidates) ==
    LET best == CHOOSE i \in 1..Len(candidates) :
                    /\ \A j \in 1..Len(candidates) : candidates[j].score <= candidates[i].score
                    /\ \A j \in 1..(i - 1) : candidates[j].score < candidates[i].score
    IN  IF candidates = <<>> THEN Raises("IllegalMoveError")
        ELSE IF ~ candidates[best].valid THEN Raises("IllegalMoveError")
        ELSE Returned(candidates[best].move)

\* A call of parse_move: its arguments and its result.
ParseCall(suggestion, legal_moves, outcome) ==
    [pc |-> "parsed", suggestion |-> suggestion, legal_moves |-> legal_moves,
     error |-> outcome.error, move |-> outcome.move]

NoParse == [ParseCall(PyNone, {}, Returned(<<NonePos, NonePos>>)) EXCEPT !.pc = "idle"]

\* A call of choose_move in progress: the attempt the loop is in, the number
\* of generate_move calls made, and how the call ended.  `replies` is ghost
\* history: what the provider answered, call by call.
choose_move_call(max_retries) ==
    [pc |-> "attempt", max_retries |-> max_retries, attempt |-> 1, calls |-> 0,
     error |-> "", move |-> <<NonePos, NonePos>>, replies |-> <<>>]

NoCall == [choose_move_call(0) EXCEPT !.pc = "idle"]

\* The loop gives up one attempt early.
choose_move_attempt_gives_up_early(loop, self, reply) ==
    LET request == _analyse(self)
        attempts == loop.max_retries + 1
        decided == _decide(_score_candidates(request, reply.value))
        called == [loop EXCEPT !.calls = @ + 1]
    IN  IF reply.raises
        THEN [called EXCEPT !.pc = "raised", !.error = "Exception"]
        ELSE IF decided.error = ""
        THEN [called EXCEPT !.pc = "returned", !.move = decided.move]
        ELSE IF loop.attempt + 1 >= attempts
        THEN [called EXCEPT !.pc = "raised", !.error = "RuntimeError"]
        ELSE [called EXCEPT !.attempt = @ + 1]

\* One pass of the loop of choose_move(game, ...): _analyse, the provider's
\* answer (reply.raises when generate_move raised), _score_candidates and
\* _decide; then return, retry after the backoff, or RuntimeError.
choose_move_attempt(loop, self, reply) ==
    LET request == _analyse(self)
        attempts == loop.max_retries + 1
        decided == _decide(_score_candidates(request, reply.value))
        called == [loop EXCEPT !.calls = @ + 1]
    IN  IF reply.raises
        THEN [called EXCEPT !.pc = "raised", !.error = "Exception"]
        ELSE IF decided.error = ""
        THEN [called EXCEPT !.pc = "returned", !.move = decided.move]
        ELSE IF loop.attempt >= attempts
        THEN [called EXCEPT !.pc = "raised", !.error = "RuntimeError"]
        ELSE [called EXCEPT !.attempt = @ + 1]

\* ---------------------------------------------------------------- suggestions
\* The values a provider answers with.  Each is a Python value; the comment
\* gives it as Python source.
Txt_e2e4 == <<"e", "2", "e", "4">>
Txt_from == <<"f", "r", "o", "m">>
Txt_to == <<"t", "o">>

\* ((6, 4), (4, 4)): e2-e4 as coordinates.
SugPairE2E4 == PyMove(<<6, 4>>, <<4, 4>>)
\* ((1, 4), (3, 4)): e7-e5 as coordinates.
SugPairE7E5 == PyMove(<<1, 4>>, <<3, 4>>)
\* ((6, 5), (5, 5)): f2-f3 as coordinates.
SugPairF2F3 == PyMove(<<6, 5>>, <<5, 5>>)
\* ((8, 0), (7, 0)): coordinates off the board.
SugPairOffBoard == PyMove(<<8, 0>>, <<7, 0>>)
\* "e2e4"
SugTextE2E4 == PyStr(Txt_e2e4)
\* "  E7E5\n"
SugTextUpperE7E5 == PyStr(<<" ", " ", "E", "7", "E", "5", "\n">>)
\* "a1a1"
SugTextA1A1 == PyStr(<<"a", "1", "a", "1">>)
\* "e7e8q"
SugTextPromotion == PyStr(<<"e", "7", "e", "8", "q">>)
\* "f7f8": a queen move in the stalemate position.
SugTextF7F8 == PyStr(<<"f", "7", "f", "8">>)
\* "I play e4": neither a move nor JSON.
SugTextProse == PyStr(<<"I", " ", "p", "l", "a", "y", " ", "e", "4">>)
\* {"best_move": {"from": "e2", "to": "e4"}} (a str)
SugJsonBestMove ==
    PyJson(<<"{", "\"", "b", "e", "s", "t", "_", "m", "o", "v", "e", "\"",
              ":", " ", "{", "\"", "f", "r", "o", "m", "\"", ":", " ",
              "\"", "e", "2", "\"", ",", " ", "\"", "t", "o", "\"", ":",
              " ", "\"", "e", "4", "\"", "}", "}">>,
           PyDict(<<<<<<"b", "e", "s", "t", "_", "m", "o", "v", "e">>,
                      PyDict(<<<<Txt_from, PyStr(<<"e", "2">>)>>,
                               <<Txt_to, PyStr(<<"e", "4">>)>>>>)>>>>))
\* "\"g1f3\"" (a str holding a JSON string)
SugJsonString == PyJson(<<"\"", "g", "1", "f", "3", "\"">>, PyStr(<<"g", "1", "f", "3">>))
\* "7" (a str holding a JSON number)
SugJsonNumber == PyJson(<<"7">>, PyInt)
\* {"move": "e7e8q"}
SugDictPromotion ==
    PyDict(<<<<<<"m", "o", "v", "e">>, PyStr(<<"e", "7", "e", "8", "q">>)>>>>)
\* {"start": "G8", "end": "F6", "promotion": None}
SugDictStartEnd ==
    PyDict(<<<<<<"s", "t", "a", "r", "t">>, PyStr(<<"G", "8">>)>>,
             <<<<"e", "n", "d">>, PyStr(<<"F", "6">>)>>,
             <<<<"p", "r", "o", "m", "o", "t", "i", "o", "n">>, PyNone>>>>)
\* {"from": "e2", "to": "e4", "promotion": 5}
SugDictNumberPromotion ==
    PyDict(<<<<Txt_from, PyStr(<<"e", "2">>)>>,
             <<Txt_to, PyStr(<<"e", "4">>)>>,
             <<<<"p", "r", "o", "m", "o", "t", "i", "o", "n">>, PyInt>>>>)
\* {"from": "f7", "to": "f8\n"}
SugDictNewline ==
    PyDict(<<<<Txt_from, PyStr(<<"f", "7">>)>>,
             <<Txt_to, PyStr(<<"f", "8", "\n">>)>>>>)
\* {"e2e4": 1, "to": 7}: no known key, so the keys themselves are searched.
SugDictKeys ==
    PyDict(<<<<Txt_e2e4, PyInt>>, <<Txt_to, PyInt>>>>)
\* ["a1a1", ((6, 6), (5, 6)), "e2e4"]: two candidates after a rejected one.
SugListMixed == PyList(<<SugTextA1A1, PyMove(<<7, 6>>, <<5, 5>>), SugTextE2E4>>)
\* []
SugListEmpty == PyList(<<>>)
\* [["a1a1", "e2e4"]]: one suggestion that is itself a list.
SugListNested == PyList(<<PyList(<<SugTextA1A1, SugTextE2E4>>)>>)

Suggestions ==
    {SugPairE2E4, SugPairE7E5, SugPairF2F3, SugPairOffBoard, SugTextE2E4,
     SugTextUpperE7E5, SugTextA1A1, SugTextPromotion, SugTextF7F8, SugTextProse,
     SugJsonBestMove, SugJsonString, SugJsonNumber, SugDictPromotion,
     SugDictStartEnd, SugDictNumberPromotion, SugDictNewline, SugDictKeys,
     SugListMixed, SugListEmpty, SugListNested, PyNone, PyInt}

\* The suggestions generate_move answers with.
ProviderOutputs ==
    {SugPairE2E4, SugPairE7E5, SugPairOffBoard, SugTextUpperE7E5, SugTextA1A1,
     SugTextF7F8, SugJsonBestMove, SugDictPromotion, SugListMixed, SugListEmpty}

\* ======================================================================
\* Background computation: src/ai/player.py and src/ui/controller.py
\* ======================================================================
\* Objects are values here, so a reference to a game object is modelled
\* explicitly: `ref` says whether it denotes the controller's canonical game or
\* an object of its own, whose contents are `value`.
\* copy.deepcopy(game) handed the same object back.
deepcopy_shares(self) == [ref |-> "canonical", value |-> self]

\* copy.deepcopy(game): a new object with the contents of game.
deepcopy(self) == [ref |-> "copy", value |-> self]

\* The contents of the object a reference denotes.
deref(snapshot, canonical) ==
    IF snapshot.ref = "canonical" THEN canonical ELSE snapshot.value

\* Strategist(provider, telemetry=...): max_retries keeps its default.
DefaultMaxRetries == 2

\* An AIPlayer as its constructor leaves it.  _thread is the number of the
\* thread (0 for None); a threading.Event is its identity and its flag.
AIPlayer == [_thread |-> 0, _cancel_event |-> [id |-> 0, is_set |-> FALSE]]

\* The thread request_move starts for _worker.  pc is the statement _worker is
\* at, move its local variable once choose_move has returned.  Ghost fields:
\* cancel_returned says that AIPlayer.cancel() has returned while this request
\* was pending, abandoned that the controller cancelled the computation before
\* its result was delivered.
Thread(player, game_snapshot) ==
    [player |-> player, pc |-> "choose_move", game_snapshot |-> game_snapshot,
     move |-> <<NonePos, NonePos>>, cancel_returned |-> FALSE,
     abandoned |-> FALSE]

\* A thread that has ended: its frame and the snapshot it held are gone.
Ended(thread) ==
    [player |-> thread.player, pc |-> "dead", game_snapshot |-> [ref |-> "freed"],
     move |-> <<NonePos, NonePos>>, cancel_returned |-> FALSE,
     abandoned |-> FALSE]

\* Strategist.choose_move(game) with the default max_retries: the calls it can
\* end in, one for every sequence of answers of the provider.
RECURSIVE choose_move_from(_, _, _)
choose_move_from(loop, self, replies) ==
    IF loop.pc # "attempt" THEN {loop}
    ELSE UNION {choose_move_from(choose_move_attempt(loop, self, reply), self, replies) :
                    reply \in replies}

choose_move(self, replies) ==
    choose_move_from(choose_move_call(DefaultMaxRetries), self, replies)

\* Thread.is_alive() of thread number t.
is_alive(all_threads, t) == t # 0 /\ all_threads[t].pc # "dead"

\* The controller as __init__ leaves it, after its call of new_game() with both
\* selectors on "Mensch".  The selectors of the controls always show what
\* _player_types holds, so one field stands for both.  dialog is the title of
\* the message box the last handler showed ("" for none).  Ghost field:
\* request is the thread computing for _active_ai_colour (0 for none).
ChessController ==
    [_player_types |-> [c \in Colors |-> "human"],
     _active_ai_colour |-> "none",
     _ai_thinking |-> FALSE,
     _move_history |-> <<>>,
     selected_square |-> NonePos,
     valid_moves |-> {},
     dialog |-> "",
     request |-> 0]

\* The objects the handlers work on, passed from call to call.
World(canonical, ctl, ai_players, all_threads, queue) ==
    [game |-> canonical, controller |-> ctl, players |-> ai_players,
     threads |-> all_threads, ui_queue |-> queue]

\* AIPlayer.cancel() of the player of a colour.
cancel(w, colour) ==
    [w EXCEPT !.players[colour]._cancel_event.is_set = TRUE,
              !.threads = [t \in DOMAIN w.threads |->
                    IF t = w.players[colour]._thread /\ is_alive(w.threads, t)
                    THEN [w.threads[t] EXCEPT !.cancel_returned = TRUE]
                    ELSE w.threads[t]]]

\* The test for a worker that is still alive is left out.
request_move_while_busy(w, colour) ==
    [raised |-> FALSE,
     world |-> [w EXCEPT
        !.players[colour] = [_thread |-> Len(w.threads) + 1,
                             _cancel_event |-> [id |-> Len(w.threads) + 1,
                                                is_set |-> FALSE]],
        !.threads = Append(@, Thread(colour, deepcopy(w.game)))]]

\* AIPlayer.request_move(game, ...) of the player of a colour: RuntimeError
\* while its worker is alive, else a new Event, a snapshot and a new thread.
request_move(w, colour) ==
    IF is_alive(w.threads, w.players[colour]._thread)
    THEN [raised |-> TRUE, world |-> w]
    ELSE [raised |-> FALSE,
          world |-> [w EXCEPT
            !.players[colour] = [_thread |-> Len(w.threads) + 1,
                                 _cancel_event |-> [id |-> Len(w.threads) + 1,
                                                    is_set |-> FALSE]],
            !.threads = Append(@, Thread(colour, deepcopy(w.game)))]]

\* ChessController._cancel_ai_task()
_cancel_ai_task(w) ==
    LET active == w.controller._active_ai_colour
        cancelled == IF active # "none" THEN cancel(w, active) ELSE w
    IN  [cancelled EXCEPT
            !.controller._active_ai_colour = "none",
            !.controller._ai_thinking = FALSE,
            !.controller.request = 0,
            !.threads = [t \in DOMAIN cancelled.threads |->
                IF t = w.controller.request /\ is_alive(cancelled.threads, t)
                THEN [cancelled.threads[t] EXCEPT !.abandoned = TRUE]
                ELSE cancelled.threads[t]],
            !.ui_queue = [i \in DOMAIN w.ui_queue |->
                IF w.ui_queue[i].thread = w.controller.request
                THEN [w.ui_queue[i] EXCEPT !.abandoned = TRUE]
                ELSE w.ui_queue[i]]]

\* ChessController._start_ai_turn(colour); _ensure_ai_player succeeds.
_start_ai_turn(w, colour) ==
    LET thinking == [w EXCEPT !.controller._active_ai_colour = colour,
                              !.controller._ai_thinking = TRUE]
        requested == request_move(thinking, colour)
    IN  IF requested.raised
        THEN [thinking EXCEPT !.controller._active_ai_colour = "none",
                              !.controller._ai_thinking = FALSE,
                              !.controller.request = 0,
                              !.controller.dialog = "KI beschaeftigt"]
        ELSE [requested.world EXCEPT
                !.controller.request = Len(requested.world.threads)]

\* ChessController._maybe_trigger_ai_turn()
_maybe_trigger_ai_turn(w) ==
    IF w.game.game_over THEN w
    ELSE IF w.controller._player_types[w.game.current_player] # "ai"
    THEN _cancel_ai_task(w)
    ELSE _start_ai_turn(w, w.game.current_player)

\* The history entry is written before apply_move has accepted the move.
_execute_move_logs_first(w, start, end) ==
    LET piece == w.game.board[start]
        outcome == apply_move(w.game, start, end)
        logged == [w EXCEPT
                    !.controller._move_history = Append(@, <<piece, start, end>>),
                    !.controller.selected_square = NonePos,
                    !.controller.valid_moves = {}]
        done == [logged EXCEPT !.game = outcome.self]
    IN  IF piece = None THEN w
        ELSE IF outcome.raised
        THEN [logged EXCEPT !.controller.dialog = "Ungueltiger Zug"]
        ELSE IF done.game.game_over
        THEN [done EXCEPT !.controller.dialog = "Spielende"]
        ELSE _maybe_trigger_ai_turn(done)

\* ChessController._execute_move(start, end); a history entry is the piece and
\* the two squares its text is formatted from.
_execute_move(w, start, end) ==
    LET piece == w.game.board[start]
        outcome == apply_move(w.game, start, end)
        done == [w EXCEPT
                    !.game = outcome.self,
                    !.controller._move_history = Append(@, <<piece, start, end>>),
                    !.controller.selected_square = NonePos,
                    !.controller.valid_moves = {},
                    !.controller.dialog =
                        IF outcome.result.game_over /\ outcome.result.just_finished
                        THEN "Spielende" ELSE @]
    IN  IF piece = None THEN w
        ELSE IF outcome.raised
        THEN [w EXCEPT !.controller.dialog = "Ungueltiger Zug",
                       !.controller.selected_square = NonePos,
                       !.controller.valid_moves = {}]
        ELSE IF done.game.game_over THEN done
        ELSE _maybe_trigger_ai_turn(done)

\* ChessController._on_ai_move_ready(colour, move)
_on_ai_move_ready(w, colour, move) ==
    IF colour # w.controller._active_ai_colour THEN w
    ELSE _execute_move([w EXCEPT !.controller._active_ai_colour = "none",
                                 !.controller._ai_thinking = FALSE,
                                 !.controller.request = 0],
                       move[1], move[2])

\* The error handler gives the computation up without telling the user.
_on_ai_error_silent(w, colour) ==
    IF colour # w.controller._active_ai_colour THEN w
    ELSE [w EXCEPT !.controller._active_ai_colour = "none",
                   !.controller._ai_thinking = FALSE,
                   !.controller.request = 0]

\* ChessController._on_ai_error(colour, exc)
_on_ai_error(w, colour) ==
    IF colour # w.controller._active_ai_colour THEN w
    ELSE [w EXCEPT !.controller._active_ai_colour = "none",
                   !.controller._ai_thinking = FALSE,
                   !.controller.request = 0,
                   !.controller.dialog = "KI-Fehler"]

\* ChessController.new_game()
new_game(w) ==
    _maybe_trigger_ai_turn(
        [_cancel_ai_task(w) EXCEPT
            !.game = reset,
            !.controller.selected_square = NonePos,
            !.controller.valid_moves = {},
            !.controller._move_history = <<>>])

\* ChessController._on_player_mode_changed(colour, mode)
_on_player_mode_changed(w, colour, mode) ==
    LET typed == [w EXCEPT !.controller._player_types[colour] = mode]
    IN  _maybe_trigger_ai_turn(
            IF mode # "ai" /\ colour = w.controller._active_ai_colour
            THEN _cancel_ai_task(typed) ELSE typed)

\* ChessController.on_square_clicked(position)
on_square_clicked(w, position) ==
    LET piece == w.game.board[position]
    IN  IF w.game.game_over THEN w
        ELSE IF w.controller.selected_square # NonePos
                /\ position \in w.controller.valid_moves
        THEN _execute_move(w, w.controller.selected_square, position)
        ELSE IF piece # None /\ piece[1] = w.game.current_player
        THEN [w EXCEPT !.controller.selected_square = position,
                       !.controller.valid_moves =
                            get_valid_moves(w.game, position[1], position[2])]
        ELSE [w EXCEPT !.controller.selected_square = NonePos,
                       !.controller.valid_moves = {}]

\* What on_complete and on_error of _start_ai_turn hand to _schedule_on_ui:
\* the callback controls.after(0, ...) will run.  Ghost fields: thread is the
\* worker that made the call, abandoned says that the controller has cancelled
\* that worker's computation.
Scheduled(callback, colour, move, t, abandoned) ==
    [callback |-> callback, colour |-> colour, move |-> move, thread |-> t,
     abandoned |-> abandoned]

\* The squares the user clicks and what the provider of an AI player answers.
ClickSquares == {sq(4, 2), sq(4, 4)}

AiReplies ==
    {[raises |-> FALSE, value |-> SugPairE2E4],
     [raises |-> FALSE, value |-> SugPairE7E5],
     [raises |-> TRUE, value |-> PyNone]}

\* ---------------------------------------------------------------- actions
\* No suggestion parsed, no choose_move running, and the controller as its
\* constructor leaves it.
InitAi ==
    /\ parse = NoParse
    /\ call = NoCall
    /\ controller = ChessController
    /\ players = [colour \in Colors |-> AIPlayer]
    /\ threads = <<>>
    /\ ui_queue = <<>>

Init ==
    /\ game = reset
    /\ result = NoResult
    /\ moved = {}
    /\ InitAi

ApplyMove ==
    \E input \in Inputs :
        \E outcome \in {apply_move(game, input[1], input[2])} :
            /\ outcome.raised \/ game.turn_counter < MaxPly
            /\ game' = outcome.self
            /\ result' = outcome.result
            /\ moved' = IF outcome.raised THEN moved
                        ELSE moved \cup touched_squares(game, input[1], input[2])
            /\ UNCHANGED ai_vars

\* Reset without the assignment of the halfmove clock and the fullmove number.
Reset_keeps_counters ==
    /\ game' = [reset EXCEPT !.halfmove_clock = game.halfmove_clock,
                             !.fullmove_number = game.fullmove_number]
    /\ result' = [NoResult EXCEPT !.op = "reset"]
    /\ moved' = {}
    /\ UNCHANGED ai_vars

Reset ==
    /\ game' = reset
    /\ result' = [NoResult EXCEPT !.op = "reset"]
    /\ moved' = {}
    /\ UNCHANGED ai_vars

\* read_fen of every input string, computed once.
FenFields == [fen \in FenInputs |-> read_fen(fen)]

ImportFen ==
    \E fen \in FenInputs :
        LET outcome == store_fen(game, FenFields[fen])
        IN  /\ game.turn_counter <= MaxImportPly
            /\ game' = outcome.self
            /\ result' = [Raised("import_fen") EXCEPT !.raised = outcome.raised]
            /\ moved' = IF outcome.self = game THEN moved ELSE {}
            /\ UNCHANGED ai_vars

\* The positions the suggestion pipeline is run on: the initial position, the
\* position after e2-e4, a position with black to move and a capture at hand,
\* and a stalemate.
PipelineGames ==
    {reset,
     apply_move(reset, sq(4, 2), sq(4, 4)).self,
     import_fen(reset, FenQueenCapture).self,
     import_fen(reset, FenStalemate).self}

InitPipeline ==
    /\ game \in PipelineGames
    /\ result = NoResult
    /\ moved = {}
    /\ InitAi

\* What generate_move may do: answer with any of the suggestions, or raise.
ProviderReplies ==
    {[raises |-> FALSE, value |-> value] : value \in ProviderOutputs}
        \cup {[raises |-> TRUE, value |-> PyNone]}

\* parse_move(game, suggestion, legal_moves=...) with the list the Strategist
\* passes, an empty list, or a list of one move.
ParseMove ==
    \E suggestion \in Suggestions :
        \E legal_moves \in {_collect_legal_moves(game), {}, {Txt_e2e4}} :
            /\ parse' = ParseCall(suggestion, legal_moves,
                                  parse_move(game, suggestion, legal_moves))
            /\ UNCHANGED <<game, result, moved, call, controller, players, threads, ui_queue>>

\* choose_move(game) is called on a Strategist built with max_retries.
ChooseMove ==
    /\ call.pc # "attempt"
    /\ \E max_retries \in 0..MaxRetries : call' = choose_move_call(max_retries)
    /\ UNCHANGED <<game, result, moved, parse, controller, players, threads, ui_queue>>

\* The provider answers the request of the attempt in progress.
GenerateMove ==
    /\ call.pc = "attempt"
    /\ \E reply \in ProviderReplies :
          call' = [choose_move_attempt(call, game, reply) EXCEPT
                        !.replies = Append(@, reply)]
    /\ UNCHANGED <<game, result, moved, parse, controller, players, threads, ui_queue>>

NextParser == ParseMove

SpecParser == InitPipeline /\ [][NextParser]_vars

NextStrategist == ChooseMove \/ GenerateMove

SpecStrategist == InitPipeline /\ [][NextStrategist]_vars

\* The objects as they are, and the step that leaves them as a handler or a
\* worker statement left them.
Now == World(game, [controller EXCEPT !.dialog = ""], players, threads, ui_queue)

Commit(w) ==
    /\ w.game.turn_counter <= MaxAiPly
    /\ Len(w.threads) <= MaxThreads
    /\ game' = w.game
    /\ controller' = w.controller
    /\ players' = w.players
    /\ threads' = w.threads
    /\ ui_queue' = w.ui_queue
    /\ UNCHANGED <<result, moved, parse, call>>

\* The user presses "Neues Spiel".
NewGame ==
    \E w \in {new_game(Now)} : Commit(w)

\* The user picks "Mensch" or "KI" for a colour.
PlayerModeChanged ==
    \E colour \in Colors, mode \in {"human", "ai"} :
        \E w \in {_on_player_mode_changed(Now, colour, mode)} : Commit(w)

\* The user clicks a square of the board.
SquareClicked ==
    /\ \E position \in ClickSquares :
          \E w \in {on_square_clicked(Now, position)} : Commit(w)

\* The UI loop runs the callback scheduled first.
RunScheduled ==
    /\ ui_queue # <<>>
    /\ LET head == Head(ui_queue)
           rest == [Now EXCEPT !.ui_queue = Tail(ui_queue)]
       IN  \E w \in {IF head.callback = "_on_ai_move_ready"
                     THEN _on_ai_move_ready(rest, head.colour, head.move)
                     ELSE _on_ai_error(rest, head.colour)} : Commit(w)

\* A worker runs self._strategist.choose_move(game_snapshot, ...).
WorkerChooseMove ==
    \E t \in DOMAIN threads :
        /\ threads[t].pc = "choose_move"
        /\ \E loop \in choose_move(deref(threads[t].game_snapshot, game), AiReplies) :
              threads' = [threads EXCEPT
                  ![t].move = loop.move,
                  ![t].pc = IF loop.pc = "returned" THEN "is_set" ELSE "except"]
        /\ UNCHANGED <<game, result, moved, parse, call, controller, players, ui_queue>>

\* A worker reads self._cancel_event.is_set(), after choose_move returned or
\* in the except clause.
WorkerIsSet ==
    \E t \in DOMAIN threads :
        /\ threads[t].pc \in {"is_set", "except"}
        /\ threads' = [threads EXCEPT ![t].pc =
                IF players[threads[t].player]._cancel_event.is_set THEN "exit"
                ELSE IF threads[t].pc = "is_set" THEN "on_complete"
                ELSE "on_error"]
        /\ UNCHANGED <<game, result, moved, parse, call, controller, players, ui_queue>>

\* A worker calls on_complete(move) or on_error(exc): _schedule_on_ui.
WorkerCallback ==
    \E t \in DOMAIN threads :
        /\ threads[t].pc \in {"on_complete", "on_error"}
        /\ ui_queue' = Append(ui_queue,
                Scheduled(IF threads[t].pc = "on_complete" THEN "_on_ai_move_ready"
                          ELSE "_on_ai_error",
                          threads[t].player, threads[t].move, t,
                          threads[t].abandoned))
        /\ threads' = [threads EXCEPT ![t].pc = "exit"]
        /\ UNCHANGED <<game, result, moved, parse, call, controller, players>>

\* A worker stores None in self._thread and ends.
WorkerExit ==
    \E t \in DOMAIN threads :
        /\ threads[t].pc = "exit"
        /\ players' = [players EXCEPT ![threads[t].player]._thread = 0]
        /\ threads' = [threads EXCEPT ![t] = Ended(@)]
        /\ UNCHANGED <<game, result, moved, parse, call, controller, ui_queue>>

\* The controller with its AI players: the user's actions on the UI thread,
\* the scheduled callbacks, and the statements of the worker threads.
NextAi ==
    \/ NewGame \/ PlayerModeChanged
    \/ SquareClicked \/ RunScheduled
    \/ WorkerChooseMove \/ WorkerIsSet \/ WorkerCallback \/ WorkerExit

SpecAi == Init /\ [][NextAi]_vars

\* Play from the initial position by apply_move alone.
NextPlay == ApplyMove

SpecPlay == Init /\ [][NextPlay]_vars

\* The whole engine API: apply_move, reset and import_fen.
Next == ApplyMove \/ Reset \/ ImportFen

Spec == Init /\ [][Next]_vars

\* ---------------------------------------------------------------- claims
Succeeded == result.op = "apply_move" /\ ~ result.raised

Pieces(board, piece) == {p \in Pos : board[p] = piece}

\* C1: apply_move(start, end) raises and leaves every field of the game
\* unchanged whenever the game is over, start holds no piece, the piece on
\* start is not of the side to move, or end is not in get_valid_moves(start).
C1_Violates(self, start, end) ==
    \/ self.game_over
    \/ self.board[start] = None
    \/ self.board[start][1] # self.current_player
    \/ end \notin get_valid_moves(self, start[1], start[2])

C1_RejectedMoveChangesNothing ==
    \A input \in Inputs :
        C1_Violates(game, input[1], input[2])
            => LET outcome == apply_move(game, input[1], input[2])
               IN  outcome.raised /\ outcome.result.raised /\ outcome.self = game

C1_Witness ==
    /\ result.op = "apply_move" /\ result.raised
    /\ game.game_over /\ game.status = "checkmate" /\ game.turn_counter > 0

\* C2: in every state reached from the initial position by successful
\* apply_move calls, the king of the side that just moved is not attacked by
\* the side now to move.
C2_MoverKingNotAttacked ==
    \A k \in Pieces(game.board, <<opponent_of(game.current_player), "K">>) :
        ~ is_square_attacked(game.board, k, game.current_player)

\* A move has been committed, and the side that just moved has a piece whose
\* movement pattern allows a move that would expose its own king.
C2_Witness ==
    /\ Succeeded
    /\ C2_MoverKingNotAttacked
    /\ \E p \in Pos :
          /\ game.board[p] # None
          /\ game.board[p][1] = opponent_of(game.current_player)
          /\ pseudo_moves(game, p[1], p[2]) # get_valid_moves(game, p[1], p[2])

\* C3: in every state reached from the initial position, get_valid_moves of
\* an occupied square never contains a square holding a piece of the same
\* colour, nor the square of the opposing king.
C3_NoFriendlyOrKingTarget ==
    \A p \in Pos :
        game.board[p] # None =>
            \A t \in get_valid_moves(game, p[1], p[2]) :
                /\ game.board[t][1] # game.board[p][1]
                /\ game.board[t] # <<opponent_of(game.board[p][1]), "K">>

\* A sliding piece gives check: the opposing king stands on its ray.
C3_Witness ==
    /\ game.status = "check"
    /\ \E p \in Pos :
          /\ game.board[p] # None
          /\ game.board[p][2] \in {"Q", "R", "B"}
          /\ game.board[p][1] # game.current_player
          /\ \E k \in Pieces(game.board, <<game.current_player, "K">>) :
                k \in get_valid_moves_for_board(game.board, p[1], p[2])

\* C4: across apply_move calls within one game, each of the four castling
\* rights, once false, never becomes true again.
C4_RightsNeverReturn ==
    [][\A c \in Colors : \A s \in {"K", "Q"} :
          ~ game.castling_rights[c][s] => ~ game'.castling_rights[c][s]]_vars

\* The white king has moved away and stands on its home square again, beside
\* the rook that never moved; the rights stay lost.
C4_Witness ==
    /\ Succeeded
    /\ <<7, 4>> \in moved /\ <<7, 7>> \notin moved
    /\ game.board[<<7, 4>>] = <<"white", "K">>
    /\ game.board[<<7, 7>>] = <<"white", "R">>
    /\ ~ game.castling_rights["white"]["K"]
    /\ ~ game.castling_rights["white"]["Q"]

\* C5: in every state reached from the initial position, a king's legal-move
\* set contains the square two files toward a rook exactly when the king has
\* never moved, that rook has never moved nor been captured, the squares
\* between them are empty and the king's start, transit and destination
\* squares are not attacked; never again after king or rook left and returned.
C5_MayCastle(color, side) ==
    LET row == IF color = "white" THEN 7 ELSE 0
        corner == IF side = "K" THEN 7 ELSE 0
        between == IF side = "K" THEN {5, 6} ELSE {1, 2, 3}
        path == IF side = "K" THEN {4, 5, 6} ELSE {4, 3, 2}
    IN  /\ <<row, 4>> \notin moved
        /\ <<row, corner>> \notin moved
        /\ \A c \in between : game.board[<<row, c>>] = None
        /\ \A c \in path :
              ~ is_square_attacked(game.board, <<row, c>>, opponent_of(color))

SucceededStep == result'.op = "apply_move" /\ ~ result'.raised

Unchanged(board_before, board_after, squares) ==
    \A p \in Pos \ squares : board_after[p] = board_before[p]

\* C6: when apply_move commits a two-file king move, the king comes from its
\* home e-file square, the rook goes from its corner to the square the king
\* crossed (h to f, or a to d), the corner and the king's start square are
\* left empty, and both castling rights of the mover's colour are false.
C6_Castled(color) ==
    LET from == find_king_for_board(game.board, color)
        to == find_king_for_board(game'.board, color)
        row == IF color = "white" THEN 7 ELSE 0
        corner == IF to[2] = 6 THEN 7 ELSE 0
        crossed == IF to[2] = 6 THEN 5 ELSE 3
    IN  (from # NonePos /\ to # NonePos /\ abs(from[2] - to[2]) = 2) =>
            /\ color = game.current_player
            /\ from = <<row, 4>> /\ to[1] = row /\ to[2] \in {2, 6}
            /\ game.board[<<row, corner>>] = <<color, "R">>
            /\ game.board[<<row, crossed>>] = None /\ game.board[to] = None
            /\ game'.board[<<row, crossed>>] = <<color, "R">>
            /\ game'.board[<<row, corner>>] = None
            /\ game'.board[from] = None
            /\ Unchanged(game.board, game'.board,
                         {from, to, <<row, corner>>, <<row, crossed>>})
            /\ ~ game'.castling_rights[color]["K"]
            /\ ~ game'.castling_rights[color]["Q"]

C7_Diagonals(self, p) ==
    LET dir == IF self.board[p][1] = "white" THEN -1 ELSE 1
    IN  {t \in {<<p[1] + dir, p[2] - 1>>, <<p[1] + dir, p[2] + 1>>} :
            is_on_board(t[1], t[2]) /\ self.board[t] = None}

C7_Offered(self) ==
    UNION {{<<p, t>> : t \in C7_Diagonals(self, p) \cap get_valid_moves(self, p[1], p[2])} :
              p \in {p \in Pieces(self.board, <<self.current_player, "P">>) :
                        C7_Diagonals(self, p) # {}}}

\* The double pushes the step from board_before to board_after made, as
\* <<skipped square, arrival square>>.
C7_DoublePushes(board_before, board_after, color) ==
    LET dir == IF color = "white" THEN -1 ELSE 1
        home == IF color = "white" THEN 6 ELSE 1
    IN  {<<<<home + dir, c>>, <<home + 2 * dir, c>>>> : c \in
            {c \in Rows :
                /\ board_before[<<home, c>>] = <<color, "P">>
                /\ board_after[<<home, c>>] = None
                /\ board_before[<<home + 2 * dir, c>>] = None
                /\ board_after[<<home + 2 * dir, c>>] = <<color, "P">>}}

\* Taking the pushed pawn in passing from p leaves the capturer's king attacked.
C7_Exposes(board, p, skipped, arrival) ==
    LET color == board[p][1]
        after == [board EXCEPT ![p] = None, ![skipped] = board[p], ![arrival] = None]
    IN  is_in_check_for_board(after, color)

\* C7: an en-passant capture is in a pawn's legal-move set only in the opposing
\* side's single turn immediately after the enemy pawn's double push, onto the
\* skipped square, from an adjacent file, and only if it does not leave the
\* capturer's own king attacked; one ply later it is gone and apply_move
\* rejects it.
C7_OnlyRightAfterDoublePush ==
    [][SucceededStep =>
        \E offered \in {C7_Offered(game')} :
        LET pushes == C7_DoublePushes(game.board, game'.board, game.current_player)
            taker == game'.current_player
        IN  /\ \A push \in pushes : \A dc \in {-1, 1} :
                  LET p == <<push[2][1], push[2][2] + dc>>
                  IN  (is_on_board(p[1], p[2]) /\ game'.board[p] = <<taker, "P">>) =>
                          ((<<p, push[1]>> \in offered)
                              <=> ~ C7_Exposes(game'.board, p, push[1], push[2]))
            /\ \A offer \in offered :
                  \E push \in pushes :
                      /\ offer[2] = push[1]
                      /\ offer[1][1] = push[2][1]
                      /\ abs(offer[1][2] - push[2][2]) = 1
            /\ \A p \in Pieces(game'.board, <<taker, "P">>) :
                  \A t \in {t \in C7_Diagonals(game', p) : <<p, t>> \notin offered} :
                      LET outcome == apply_move(game', p, t)
                      IN  outcome.raised /\ outcome.self = game'
       ]_vars

\* Black has just pushed a pawn two squares past a white pawn on the fifth
\* rank: the window is open and the capture onto the skipped square is offered.
C7_Witness ==
    /\ Succeeded
    /\ en_passant_open(game)
    /\ game.current_player = "white"
    /\ \E offer \in C7_Offered(game) :
          /\ offer[2] = game.en_passant_target
          /\ offer[1][1] = 3
          /\ game.board[<<3, offer[2][2]>>] = <<"black", "P">>

C9_NoPawnOnLastRow(board) ==
    \A p \in Pos : (p[1] \in {0, 7}) => (board[p] = None \/ board[p][2] # "P")

C9_Count(board, piece) == Cardinality(Pieces(board, piece))

C9_PromotionToQueenOnly ==
    [][SucceededStep =>
        LET color == game.current_player
            before_last == IF color = "white" THEN 1 ELSE 6
            last == IF color = "white" THEN 0 ELSE 7
            arriving == {p \in Pieces(game.board, <<color, "P">>) :
                            p[1] = before_last /\ game'.board[p] = None}
        IN  /\ C9_NoPawnOnLastRow(game'.board)
            /\ \A p \in arriving :
                  \E c \in {p[2] - 1, p[2], p[2] + 1} :
                      /\ is_on_board(last, c)
                      /\ game.board[<<last, c>>] # <<color, "Q">>
                      /\ game'.board[<<last, c>>] = <<color, "Q">>
            /\ C9_Count(game'.board, <<color, "Q">>)
                  = C9_Count(game.board, <<color, "Q">>) + Cardinality(arriving)
            /\ C9_Count(game'.board, <<color, "P">>)
                  = C9_Count(game.board, <<color, "P">>) - Cardinality(arriving)
            /\ \A type \in {"R", "N", "B", "K"} :
                  C9_Count(game'.board, <<color, type>>)
                      = C9_Count(game.board, <<color, type>>)
            /\ \A type \in {"P", "R", "N", "B", "Q", "K"} :
                  C9_Count(game'.board, <<opponent_of(color), type>>)
                      <= C9_Count(game.board, <<opponent_of(color), type>>)
       ]_vars

\* A white pawn has just reached row 0 and white has two queens.
C9_Witness ==
    /\ Succeeded
    /\ game.current_player = "black"
    /\ C9_Count(game.board, <<"white", "Q">>) = 2
    /\ C9_Count(game.board, <<"white", "P">>) = 7
    /\ \E c \in Rows : game.board[<<0, c>>] = <<"white", "Q">>

C10_AfterCall == result.op \in {"apply_move", "import_fen"} /\ ~ result.raised

C10_HasLegalMove ==
    \E p \in Pos :
        /\ game.board[p] # None
        /\ game.board[p][1] = game.current_player
        /\ get_valid_moves(game, p[1], p[2]) # {}

C10_Kings == Pieces(game.board, <<game.current_player, "K">>)

\* The king of the side to move (the first in board order, should there be
\* several) stands on a square the opponent attacks.
C10_KingAttacked ==
    /\ C10_Kings # {}
    /\ LET king == CHOOSE k \in C10_Kings : \A other \in C10_Kings : board_order(k, other)
       IN  is_square_attacked(game.board, king, opponent_of(game.current_player))

C10_Classifies(in_check) ==
    \E has_move \in {C10_HasLegalMove} :
        /\ game.status \in {"check", "checkmate", "stalemate", "none"}
        /\ (game.status = "check") <=> (in_check /\ has_move)
        /\ (game.status = "checkmate") <=> (in_check /\ ~ has_move)
        /\ (game.status = "stalemate") <=> (~ in_check /\ ~ has_move)

\* C10 as stated: after every successful apply_move and every successful
\* import_fen, status is "check" iff the side to move has its king attacked
\* and has a legal move, "checkmate" iff its king is attacked and it has none,
\* "stalemate" iff its king is not attacked and it has none, "none" otherwise.
C10_StatusFromKingAttacked == C10_AfterCall => C10_Classifies(C10_KingAttacked)

\* C10, amended: the same classification, where the side to move also counts
\* as attacked when it has no king on the board.
C10_StatusFromKingAttackedOrAbsent ==
    C10_AfterCall => C10_Classifies(C10_Kings = {} \/ C10_KingAttacked)

\* A position without a black king has been imported with black to move:
\* black has no legal move and the status is "checkmate".
C10_Witness ==
    /\ result.op = "import_fen" /\ ~ result.raised
    /\ C10_Kings = {}
    /\ ~ C10_HasLegalMove
    /\ game.status = "checkmate" /\ game.game_over /\ game.winner = "white"

C12_TerminalIsAbsorbing ==
    (game.status \in {"checkmate", "stalemate"}) =>
        \A start \in Pos : \A end \in Pos :
            LET outcome == apply_move(game, start, end)
            IN  outcome.raised /\ outcome.result.raised /\ outcome.self = game

\* apply_move has just been rejected in a stalemate position.
C12_Witness ==
    /\ result.op = "apply_move" /\ result.raised
    /\ game.status = "stalemate" /\ game.game_over

\* The board after the first n plies of f2-f3, e7-e5, g2-g4, Qd8-h4.
C13_Moves == <<mv(5, 2, 5, 3), mv(4, 7, 4, 5), mv(6, 2, 6, 4), mv(3, 8, 7, 4)>>

C13_Board(n) ==
    [p \in Pos |->
        IF n >= 1 /\ p = sq(5, 2) THEN None
        ELSE IF n >= 1 /\ p = sq(5, 3) THEN <<"white", "P">>
        ELSE IF n >= 2 /\ p = sq(4, 7) THEN None
        ELSE IF n >= 2 /\ p = sq(4, 5) THEN <<"black", "P">>
        ELSE IF n >= 3 /\ p = sq(6, 2) THEN None
        ELSE IF n >= 3 /\ p = sq(6, 4) THEN <<"white", "P">>
        ELSE IF n >= 4 /\ p = sq(3, 8) THEN None
        ELSE IF n >= 4 /\ p = sq(7, 4) THEN <<"black", "Q">>
        ELSE initial_board[p]]

\* C13: from the initial position f2-f3, e7-e5, g2-g4, Qd8-h4 is accepted
\* move by move by apply_move and ends with status "checkmate", game_over
\* true and winner black.
C13_FoolsMate ==
    \A n \in 0..3 :
        (game.turn_counter = n /\ game.board = C13_Board(n)) =>
            LET outcome == apply_move(game, C13_Moves[n + 1][1], C13_Moves[n + 1][2])
            IN  /\ ~ outcome.raised
                /\ outcome.self.turn_counter = n + 1
                /\ outcome.self.board = C13_Board(n + 1)
                /\ (n < 3) => ~ outcome.self.game_over
                /\ (n = 3) =>
                      /\ outcome.self.status = "checkmate"
                      /\ outcome.self.game_over
                      /\ outcome.self.winner = "black"
                      /\ outcome.result.status = "checkmate"
                      /\ outcome.result.game_over
                      /\ outcome.result.winner = "black"

\* The queen has just arrived on h4 and white is mated.
C13_Witness ==
    /\ Succeeded
    /\ game.turn_counter = 4 /\ game.board = C13_Board(4)
    /\ game.status = "checkmate" /\ game.game_over /\ game.winner = "black"
    /\ result.status = "checkmate" /\ result.winner = "black"

\* C14: in the position produced by reset() white's legal-move sets hold
\* exactly 20 moves: two for each of the eight pawns, two for each of the two
\* knights, none for any other white piece.
C14_WhiteMoves(self) ==
    UNION {{<<p, t>> : t \in get_valid_moves(self, p[1], p[2])} :
              p \in {p \in Pos : self.board[p] # None /\ self.board[p][1] = "white"}}

C14_TwentyOpeningMoves ==
    (game = reset) =>
        /\ Cardinality(C14_WhiteMoves(game)) = 20
        /\ \A c \in Rows : get_valid_moves(game, 6, c) = {<<5, c>>, <<4, c>>}
        /\ get_valid_moves(game, 7, 1) = {<<5, 0>>, <<5, 2>>}
        /\ get_valid_moves(game, 7, 6) = {<<5, 5>>, <<5, 7>>}
        /\ \A c \in {0, 2, 3, 4, 5, 7} : get_valid_moves(game, 7, c) = {}

\* reset() has just been called.
C14_Witness ==
    /\ result.op = "reset"
    /\ game = reset
    /\ Cardinality(C14_WhiteMoves(game)) = 20

\* C15: each successful apply_move increases the ply counter by exactly one,
\* flips the side to move and increases the fullmove number by one exactly
\* when black made the move; in every state reached from reset() white is to
\* move iff the ply counter is even.
C15_WhiteOnEvenPly == (game.current_player = "white") <=> (game.turn_counter % 2 = 0)

C15_PlyAndSideAdvance ==
    /\ [] C15_WhiteOnEvenPly
    /\ [][SucceededStep =>
            /\ game'.turn_counter = game.turn_counter + 1
            /\ game'.current_player = opponent_of(game.current_player)
            /\ game'.fullmove_number =
                  game.fullmove_number + (IF game.current_player = "black" THEN 1 ELSE 0)
            /\ result'.current_player = game'.current_player
         ]_vars

\* Black has completed the first full move and white has moved again.
C15_Witness ==
    /\ Succeeded
    /\ game.turn_counter = 3 /\ game.fullmove_number = 2
    /\ game.current_player = "black"

\* C16: after a successful apply_move the halfmove clock is 0 if the moved
\* piece was a pawn or the move captured a piece (an en-passant capture
\* included), and otherwise exactly one more than before the move.
C16_PawnMoved(color) ==
    \E p \in Pieces(game.board, <<color, "P">>) : game'.board[p] = None

C16_Men(board, color) == {p \in Pos : board[p] # None /\ board[p][1] = color}

C16_Captured(color) ==
    Cardinality(C16_Men(game'.board, opponent_of(color)))
        < Cardinality(C16_Men(game.board, opponent_of(color)))

C16_HalfmoveClock ==
    [][SucceededStep =>
        game'.halfmove_clock =
            IF C16_PawnMoved(game.current_player) \/ C16_Captured(game.current_player)
            THEN 0
            ELSE game.halfmove_clock + 1
      ]_vars

\* The black queen has just taken the pawn on h4 and the clock, imported as 5,
\* is back to 0.
C16_Witness ==
    /\ Succeeded
    /\ game.halfmove_clock = 0
    /\ game.board[<<4, 7>>] = <<"black", "Q">>
    /\ Pieces(game.board, <<"white", "P">>) = {}
    /\ Pieces(game.board, <<"black", "P">>) = {}
    /\ game.turn_counter = 6

\* C17: for every position string s that import_fen accepts, importing s,
\* exporting and importing the exported string again yields the same game
\* state as importing s once (into the same or into a fresh instance).
C17_DecodeEncodeDecode ==
    (result.op = "import_fen" /\ ~ result.raised) =>
        \E exported \in {export_fen(game)} :
            \E fields \in {read_fen(exported)} :
                /\ fields.raises = ""
                /\ store_fen(game, fields) = [raised |-> FALSE, self |-> game]
                /\ store_fen(reset, fields) = [raised |-> FALSE, self |-> game]

\* A string with split digit runs, a zero, an upper-case side letter, shuffled
\* castling letters and signed or zero-padded counters has been imported.
C17_Witness ==
    /\ result.op = "import_fen" /\ ~ result.raised
    /\ game.current_player = "black"
    /\ game.halfmove_clock = 7 /\ game.fullmove_number = 4 /\ game.turn_counter = 7
    /\ \A c \in Colors : \A s \in {"K", "Q"} : game.castling_rights[c][s]
    /\ export_fen(game) # FenUnusual

\* C18: for every state reached from the initial position by apply_move,
\* importing export_fen(game) into another game instance reproduces board,
\* side to move, castling rights, en-passant target and expiry, ply counter,
\* halfmove clock, fullmove number, status, game_over and winner, and
\* exporting that instance yields the identical string.
C18_ExportImportReproduces ==
    \E exported \in {export_fen(game)} :
        \E restored \in {import_fen(reset, exported)} :
            /\ ~ restored.raised
            /\ restored.self = game
            /\ export_fen(restored.self) = exported

\* A double push has just been played in a game in which white has lost its
\* castling rights and black has not, several moves in.
C18_Witness ==
    /\ Succeeded
    /\ en_passant_open(game)
    /\ ~ game.castling_rights["white"]["K"] /\ ~ game.castling_rights["white"]["Q"]
    /\ game.castling_rights["black"]["K"]
    /\ game.fullmove_number >= 3
    /\ import_fen(reset, export_fen(game)).self = game

\* The fields, ranks and squares a position string is made of, read off the
\* string itself.
C19_Letters == {"P", "N", "B", "R", "Q", "K", "p", "n", "b", "r", "q", "k"}

RECURSIVE C19_Squares(_)
C19_Squares(rank) ==
    IF rank = <<>> THEN 0
    ELSE (IF is_digit(rank[1]) THEN digit_value(rank[1]) ELSE 1) + C19_Squares(Tail(rank))

C19_Malformed(fen) ==
    LET fields == split_whitespace(fen, 1, <<>>)
        ranks == split_on(fields[1], "/", 1, <<>>)
    IN  \/ Len(fields) # 6
        \/ Len(ranks) # 8
        \/ \E r \in 1..Len(ranks) : C19_Squares(ranks[r]) # 8
        \/ \E r \in 1..Len(ranks) : \E i \in 1..Len(ranks[r]) :
              ~ is_digit(ranks[r][i]) /\ ranks[r][i] \notin C19_Letters

C19_MalformedInputs == {fen \in FenInputs : C19_Malformed(fen)}

\* C19: import_fen fails whenever the input does not have exactly six
\* whitespace-separated fields, the placement does not have exactly eight
\* "/"-separated ranks, some rank does not describe exactly eight squares, or
\* the placement contains a character that is neither a digit nor one of the
\* twelve piece letters.
C19_MalformedIsRejected ==
    \A fen \in C19_MalformedInputs : store_fen(game, FenFields[fen]).raised

\* import_fen has just failed on a game in progress and every one of the four
\* kinds of malformed input is among the strings tried.
C19_Witness ==
    /\ result.op = "import_fen" /\ result.raised
    /\ game.turn_counter = 2
    /\ {FenFiveFields, FenTooFewRanks, FenShortRank, FenLongRank,
         FenPieceBeyondRank, FenBadLetter} = C19_MalformedInputs

\* C20: whenever import_fen fails on an input string, whichever field causes
\* the failure, no field of the game instance has been modified.
C20_FailedImportChangesNothing ==
    \A fen \in FenInputs :
        LET outcome == store_fen(game, FenFields[fen])
        IN  outcome.raised => outcome.self = game


\* The standard initial placement, written out square by square.
C21_BackRank ==
    [col \in Rows |->
        IF col \in {0, 7} THEN "R" ELSE IF col \in {1, 6} THEN "N"
        ELSE IF col \in {2, 5} THEN "B" ELSE IF col = 3 THEN "Q" ELSE "K"]

C21_Start ==
    [board |-> [p \in Pos |->
                    CASE p[1] = 0 -> <<"black", C21_BackRank[p[2]]>>
                      [] p[1] = 1 -> <<"black", "P">>
                      [] p[1] = 6 -> <<"white", "P">>
                      [] p[1] = 7 -> <<"white", C21_BackRank[p[2]]>>
                      [] OTHER -> None],
     castling_rights |-> [c \in {"white", "black"} |-> [s \in {"K", "Q"} |-> TRUE]],
     current_player |-> "white",
     en_passant_target |-> NonePos,
     en_passant_expires |-> NoneInt,
     turn_counter |-> 0,
     halfmove_clock |-> 0,
     fullmove_number |-> 1,
     game_over |-> FALSE,
     status |-> "none",
     winner |-> "none"]

\* C21: from any state (mid-game, game over, after an import) reset() leaves
\* the same state: the standard initial placement on all 64 squares, white to
\* move, all four castling rights true, no en-passant target or expiry, ply
\* counter 0, halfmove clock 0, fullmove number 1, status None, game_over
\* false, winner None.
C21_ResetRestoresStart ==
    [][result'.op = "reset" => game' = C21_Start]_vars

\* reset() has just run and left the standard start.
C21_Witness ==
    /\ result.op = "reset"
    /\ game = C21_Start
    /\ Cardinality(Pieces(game.board, None)) = 32


\* The king of the side now to move stands on a square attacked by the side
\* that has just moved.
C22_OpponentKingAttacked(self) ==
    \E king \in Pieces(self.board, <<self.current_player, "K">>) :
        is_square_attacked(self.board, king, opponent_of(self.current_player))

\* C22: the in_check flag of the MoveResult returned by apply_move is true
\* exactly when the committed move leaves the opponent's king attacked, that
\* is, whenever the mover is delivering check after the move.
C22_InCheckIffKingAttacked ==
    Succeeded => (result.in_check <=> C22_OpponentKingAttacked(game))


\* The provider's i-th answer held a candidate the engine accepts for the piece
\* on its start square.
C28_Valid(i) ==
    /\ ~ call.replies[i].raises
    /\ \E k \in 1..Len(_normalise_provider_output(call.replies[i].value)) :
          _interpret_suggestion(_normalise_provider_output(call.replies[i].value)[k],
                                _analyse(game)).error = ""

\* The calls made so far and the way the call ended, against the answers the
\* provider gave.
C28_CallsAndOutcome ==
    /\ call.calls = Len(call.replies)
    /\ call.calls <= call.max_retries + 1
    /\ \A i \in 1..(call.calls - 1) : ~ C28_Valid(i) /\ ~ call.replies[i].raises
    /\ call.pc = "returned" <=> (call.calls > 0 /\ C28_Valid(call.calls))
    /\ call.pc = "returned" =>
          \E k \in 1..Len(_normalise_provider_output(call.replies[call.calls].value)) :
              _interpret_suggestion(
                  _normalise_provider_output(call.replies[call.calls].value)[k],
                  _analyse(game)) = Returned(call.move)
    /\ (call.pc = "raised" /\ call.error = "RuntimeError") <=>
          (/\ call.calls = call.max_retries + 1
           /\ ~ C28_Valid(call.calls) /\ ~ call.replies[call.calls].raises)

\* C28: choose_move calls the provider at most max_retries + 1 times; it
\* returns the move of the first attempt that yields a valid candidate without
\* calling the provider again, and raises RuntimeError once max_retries + 1
\* attempts have each yielded only illegal candidates.
C28_AtMostRetriesPlusOneCalls ==
    /\ [] C28_CallsAndOutcome
    /\ [][call.pc # "attempt" /\ call'.pc = call.pc => call'.calls = call.calls]_vars

\* A call with max_retries = 2 returned on its third attempt, after two answers
\* without a valid candidate; it made three provider calls.
C28_Witness ==
    /\ call.pc = "returned" /\ call.max_retries = 2 /\ call.calls = 3
    /\ ~ C28_Valid(1) /\ ~ C28_Valid(2) /\ C28_Valid(3)


\* C29: every move returned by choose_move is a legal move of the side to
\* move in the game it was given, so that apply_move on that position accepts
\* it, whichever form (coordinate pair or text/JSON) the provider's suggestion
\* took.
C29_ReturnedMoveIsAccepted ==
    call.pc = "returned" =>
        /\ game.board[call.move[1]] # None
        /\ game.board[call.move[1]][1] = game.current_player
        /\ ~ apply_move(game, call.move[1], call.move[2]).raised


\* What the move text found in the suggestion of the last parse_move call
\* denotes: four characters naming two squares, and nothing after them.
C30_Text == lower(_normalise_suggestion(parse.suggestion))

C30_Listed ==
    parse.legal_moves = {} \/ C30_Text \in {lower(move) : move \in parse.legal_moves}

C30_Squares ==
    /\ Len(C30_Text) = 4
    /\ \A i \in {1, 3} : \E file \in 1..8 : FILES[file] = C30_Text[i]
    /\ \A i \in {2, 4} : \E rank \in 2..9 : Digits[rank] = C30_Text[i]

C30_Square(i) ==
    CHOOSE position \in Pos : square_to_notation(position) = SubSeq(C30_Text, i, i + 1)

\* C30: parse_move returns a (start, end) pair only if the normalised move
\* string is in the supplied legal-move list (when that list is non-empty),
\* carries no promotion suffix, and end is in get_valid_moves(start) of the
\* given game; in every other case it raises IllegalMoveError, and in no case
\* does it modify the game.
C30_ParseMoveReturnsOnlyListedValid ==
    /\ [](parse.pc = "parsed" =>
            IF /\ C30_Listed /\ C30_Squares
               /\ C30_Square(3) \in get_valid_moves(game, C30_Square(1)[1], C30_Square(1)[2])
            THEN parse.error = "" /\ parse.move = <<C30_Square(1), C30_Square(3)>>
            ELSE parse.error = "IllegalMoveError")
    /\ [][parse'.pc = "parsed" => game' = game]_vars

\* parse_move has returned a move found in a JSON text, with the list passed;
\* for the same position another suggestion is valid for the engine but not
\* in the list, and one carries a promotion suffix.
C30_Witness ==
    /\ parse.pc = "parsed" /\ parse.error = ""
    /\ parse.suggestion = SugJsonBestMove /\ parse.legal_moves # {}
    /\ parse_move(game, SugTextUpperE7E5, {}).error = ""
    /\ parse_move(game, SugTextUpperE7E5, parse.legal_moves).error = "IllegalMoveError"
    /\ lower(_normalise_suggestion(SugDictPromotion))[5] = "q"


\* ----------------------------------------------------------------------
\* C23: request_move hands the worker a deep copy of the game.  No step of a
\* worker thread changes the canonical game, and while a worker is alive the
\* contents of the object it computes on stay what they were, whatever
\* happens to the canonical game in between.
C23_WorkerStepped ==
    \E t \in DOMAIN threads : threads'[t].pc # threads[t].pc

C23_SnapshotKept ==
    \A t \in DOMAIN threads :
        (threads[t].pc # "dead" /\ threads'[t].pc # "dead")
            => deref(threads'[t].game_snapshot, game')
                    = deref(threads[t].game_snapshot, game)

C23_WorkerUsesOnlyItsCopy ==
    [][(C23_WorkerStepped => game' = game) /\ C23_SnapshotKept]_vars

\* A worker has chosen a move on its snapshot while the canonical game has
\* moved on.
C23_Witness ==
    \E t \in DOMAIN threads :
        /\ threads[t].pc = "is_set"
        /\ threads[t].game_snapshot.value # game
        /\ threads[t].game_snapshot.value.turn_counter = 0
        /\ game.turn_counter = 1


\* ----------------------------------------------------------------------
\* C24: once the controller has cancelled a pending AI computation, the move
\* that computation produced is never applied to the canonical game: the step
\* that runs the scheduled callback of a cancelled computation leaves the
\* game as it is.
C24_CancelledMoveNeverApplied ==
    [][(/\ ui_queue # <<>>
        /\ Len(ui_queue') = Len(ui_queue) - 1
        /\ Head(ui_queue).callback = "_on_ai_move_ready"
        /\ Head(ui_queue).abandoned)
            => game' = game]_vars

\* ----------------------------------------------------------------------
\* C25: once AIPlayer.cancel() has returned, the worker of the request that
\* was pending at that time calls neither on_complete nor on_error.
C25_NoCallbackAfterCancel ==
    [][\A t \in DOMAIN threads :
          (threads[t].pc \in {"on_complete", "on_error"} /\ threads'[t].pc = "exit")
              => ~ threads[t].cancel_returned]_vars


\* ----------------------------------------------------------------------
\* C26: an AIPlayer never has two workers alive.  request_move on a player
\* whose worker is alive raises RuntimeError and leaves the player, its
\* cancellation flag included, and the threads as they are; the handler in
\* which that happens starts no thread.
C26_Alive(colour) ==
    {t \in DOMAIN threads : threads[t].player = colour /\ threads[t].pc # "dead"}

C26_OneWorker ==
    \A colour \in Colors :
        /\ Cardinality(C26_Alive(colour)) <= 1
        /\ C26_Alive(colour) \subseteq {players[colour]._thread}

C26_BusyRaises ==
    \A colour \in Colors :
        C26_Alive(colour) # {}
            => LET requested == request_move(Now, colour)
               IN  /\ requested.raised
                   /\ requested.world.players = players
                   /\ requested.world.threads = threads

C27_Delivered ==
    /\ ui_queue # <<>>
    /\ Len(ui_queue') = Len(ui_queue) - 1
    /\ Head(ui_queue).callback = "_on_ai_move_ready"

C27_Legal(start, end) ==
    /\ ~ game.game_over
    /\ game.board[start] # None
    /\ game.board[start][1] = game.current_player
    /\ end \in get_valid_moves(game, start[1], start[2])

C27_IllegalDeliveryChangesNothing ==
    [][C27_Delivered =>
        LET start == Head(ui_queue).move[1]
            end == Head(ui_queue).move[2]
        IN  IF C27_Legal(start, end)
            THEN game' \in {game, apply_move(game, start, end).self}
            ELSE /\ game' = game
                 /\ controller'._move_history = controller._move_history]_vars

\* The controller has just refused the move a worker delivered: the worker
\* has ended, nothing has been played and the history is empty.
C27_Witness ==
    /\ controller.dialog = "Ungueltiger Zug"
    /\ controller._move_history = <<>>
    /\ game = reset
    /\ \E t \in DOMAIN threads : threads[t].pc = "dead"


\* ----------------------------------------------------------------------
\* C31: in play from the initial position, the fourth field of export_fen is
\* the square a pawn skipped exactly when the move committed last was that
\* pawn's double push, and "-" in every other state.
C31_Field(self) == split_whitespace(export_fen(self), 1, <<>>)[4]

\* The squares a pawn has left for the square two rows ahead in this step.
C31_DoublePushes ==
    {p \in Pos :
        /\ game.board[p] # None
        /\ game.board[p][2] = "P"
        /\ game'.board[p] = None
        /\ LET direction == IF game.board[p][1] = "white" THEN -1 ELSE 1
               landing == <<p[1] + 2 * direction, p[2]>>
           IN  /\ is_on_board(landing[1], landing[2])
               /\ game.board[landing] = None
               /\ game'.board[landing] = game.board[p]}

C31_Skipped(p) ==
    <<p[1] + (IF game.board[p][1] = "white" THEN -1 ELSE 1), p[2]>>

C31_EnPassantFieldFollowsDoublePush ==
    /\ [] (game.turn_counter = 0 => C31_Field(game) = <<"-">>)
    /\ [][IF SucceededStep
          THEN C31_Field(game') =
                  (IF C31_DoublePushes = {} THEN <<"-">>
                   ELSE square_to_notation(C31_Skipped(CHOOSE p \in C31_DoublePushes : TRUE)))
          ELSE game' = game]_vars

\* Black has just answered with a double push, and the field names the
\* square on the sixth rank its pawn skipped.
C31_Witness ==
    /\ Succeeded
    /\ game.current_player = "white"
    /\ game.turn_counter >= 2
    /\ C31_Field(game) # <<"-">>
    /\ C31_Field(game)[2] = "6"


\* ----------------------------------------------------------------------
\* C32: a square of a pawn's own file is among its legal moves only if it is
\* the empty square one step ahead, or the empty square two steps ahead of a
\* pawn on its home rank with the square in between empty as well: a forward
\* move never lands on a piece and never jumps over one.
C32_Pawns == {p \in Pos : game.board[p] # None /\ game.board[p][2] = "P"}

C32_Ahead(p, steps) ==
    <<p[1] + steps * (IF game.board[p][1] = "white" THEN -1 ELSE 1), p[2]>>

C32_HomeRank(p) == p[1] = (IF game.board[p][1] = "white" THEN 6 ELSE 1)

C32_Vacant(position) ==
    is_on_board(position[1], position[2]) /\ game.board[position] = None

C32_ForwardMovesNeedEmptySquares ==
    \A p \in C32_Pawns :
        \A t \in {m \in get_valid_moves(game, p[1], p[2]) : m[2] = p[2]} :
            \/ t = C32_Ahead(p, 1) /\ C32_Vacant(t)
            \/ /\ t = C32_Ahead(p, 2)
               /\ C32_HomeRank(p)
               /\ C32_Vacant(C32_Ahead(p, 1))
               /\ C32_Vacant(t)

\* A pawn on its home rank has a piece right in front of it and an empty
\* square beyond, and no forward move; another pawn has both forward moves.
C32_Witness ==
    /\ \E p \in C32_Pawns :
          /\ C32_HomeRank(p)
          /\ ~ C32_Vacant(C32_Ahead(p, 1))
          /\ C32_Vacant(C32_Ahead(p, 2))
          /\ {m \in get_valid_moves(game, p[1], p[2]) : m[2] = p[2]} = {}
    /\ \E p \in C32_Pawns :
          {C32_Ahead(p, 1), C32_Ahead(p, 2)} \subseteq get_valid_moves(game, p[1], p[2])


\* ----------------------------------------------------------------------
\* C33: is_square_attacked(board, square, by_color) is true exactly when a
\* piece of by_color attacks the square: a pawn its two forward diagonals,
\* empty or occupied, and never the square ahead; a knight and a king their
\* offset squares; a rook, bishop or queen every square of its lines up to
\* and including the first occupied one, whatever stands there.
C33_Sign(n) == IF n > 0 THEN 1 ELSE IF n < 0 THEN -1 ELSE 0

\* Every square strictly between two squares of one line is empty.
C33_ClearBetween(board, from, to) ==
    LET dr == C33_Sign(to[1] - from[1])
        dc == C33_Sign(to[2] - from[2])
        steps == IF abs(to[1] - from[1]) > abs(to[2] - from[2])
                 THEN abs(to[1] - from[1]) ELSE abs(to[2] - from[2])
    IN  \A k \in 1..(steps - 1) : board[<<from[1] + k * dr, from[2] + k * dc>>] = None

C33_Attacks(board, from, to) ==
    LET piece == board[from]
        rows == to[1] - from[1]
        cols == to[2] - from[2]
        straight == (rows = 0) # (cols = 0)
        diagonal == rows # 0 /\ abs(rows) = abs(cols)
    IN  CASE piece[2] = "P" -> rows = (IF piece[1] = "white" THEN -1 ELSE 1) /\ abs(cols) = 1
          [] piece[2] = "N" -> {abs(rows), abs(cols)} = {1, 2}
          [] piece[2] = "K" -> from # to /\ abs(rows) <= 1 /\ abs(cols) <= 1
          [] piece[2] = "R" -> straight /\ C33_ClearBetween(board, from, to)
          [] piece[2] = "B" -> diagonal /\ C33_ClearBetween(board, from, to)
          [] piece[2] = "Q" -> (straight \/ diagonal) /\ C33_ClearBetween(board, from, to)
          [] OTHER -> FALSE

C33_AttackedIffGeometry ==
    \A by_color \in Colors :
        LET men == {p \in Pos : game.board[p] # None /\ game.board[p][1] = by_color}
        IN  \A square \in Pos :
                is_square_attacked(game.board, square, by_color)
                    <=> \E from \in men : C33_Attacks(game.board, from, square)

\* After a committed move: the empty square ahead of a pawn is attacked by
\* nobody of its colour, a pawn attacks an empty square, and the queen attacks
\* the piece that ends her line while the square behind it is not attacked.
C33_Witness ==
    /\ Succeeded
    /\ \E p \in Pos :
          /\ p[1] >= 1
          /\ game.board[p] = <<"white", "P">>
          /\ game.board[<<p[1] - 1, p[2]>>] = None
          /\ ~ is_square_attacked(game.board, <<p[1] - 1, p[2]>>, "white")
    /\ \E p \in Pos :
          /\ game.board[p] = <<"black", "P">>
          /\ \E t \in Pos : /\ t[1] = p[1] + 1 /\ abs(t[2] - p[2]) = 1
                            /\ game.board[t] = None
                            /\ is_square_attacked(game.board, t, "black")
    /\ \E p \in Pos :
          /\ p[1] \in 1..5
          /\ game.board[p] = <<"black", "Q">>
          /\ game.board[<<p[1] + 1, p[2]>>] = None
          /\ game.board[<<p[1] + 2, p[2]>>] # None
          /\ is_square_attacked(game.board, <<p[1] + 2, p[2]>>, "black")
          /\ ~ is_square_attacked(game.board, <<p[1] + 3, p[2]>>, "black")


\* ----------------------------------------------------------------------
\* C34: for every castling move get_valid_moves considers, the legality
\* filter's verdict on the scratch board of simulate_move, where only the
\* king has moved, is the verdict on the board the committed move leaves,
\* where the rook has moved as well.
C34_Candidates ==
    {<<color, end>> \in Colors \X Pos :
        LET row == IF color = "white" THEN 7 ELSE 0
        IN  /\ game.board[<<row, 4>>] = <<color, "K">>
            /\ end \in castling_moves(game, row, 4, color)}

C34_KingHome(color) == <<IF color = "white" THEN 7 ELSE 0, 4>>

C34_ScratchVerdictIsFinalVerdict ==
    \A candidate \in C34_Candidates :
        LET color == candidate[1]
            start == C34_KingHome(color)
            end == candidate[2]
        IN  is_in_check_for_board(simulate_move(game, start, end), color)
                = is_in_check_for_board(board_after_move(game, start, end), color)

\* A side can castle to both wings, and on both the scratch board differs
\* from the board the move leaves.
C34_Witness ==
    \E color \in Colors :
        /\ Cardinality({candidate \in C34_Candidates : candidate[1] = color}) = 2
        /\ \A candidate \in C34_Candidates :
              simulate_move(game, C34_KingHome(candidate[1]), candidate[2])
                  # board_after_move(game, C34_KingHome(candidate[1]), candidate[2])


\* ----------------------------------------------------------------------
\* C35: when the board holds no king of a colour, that colour counts as in
\* check: get_valid_moves is empty for each of its pieces, and apply_move
\* raises only for the reasons it raises for on any board.
C35_Kingless == {color \in Colors : Pieces(game.board, <<color, "K">>) = {}}

C35_Men(color) == {p \in Pos : game.board[p] # None /\ game.board[p][1] = color}

C35_KinglessSideHasNoMoves ==
    \A color \in C35_Kingless :
        /\ is_in_check(game, color)
        /\ \A p \in C35_Men(color) : get_valid_moves(game, p[1], p[2]) = {}
        /\ \A input \in Inputs :
              apply_move(game, input[1], input[2]).raised
                  <=> C1_Violates(game, input[1], input[2])

\* A move has been committed on a board without a black king; the black
\* queen's movement pattern offers moves, and none of them is legal.
C35_Witness ==
    /\ Succeeded
    /\ "black" \in C35_Kingless
    /\ \E p \in C35_Men("black") :
          /\ pseudo_moves(game, p[1], p[2]) # {}
          /\ get_valid_moves(game, p[1], p[2]) = {}


\* ----------------------------------------------------------------------
\* C36: in play from the initial position the en-passant target and its
\* expiry are set together or not at all; when they are set, the expiry is
\* the current ply counter, the target square is empty, and a pawn of the
\* side that has just moved stands right beyond the target on its file.
C36_Set == game.en_passant_target # NonePos

C36_EnPassantPairIsConsistent ==
    /\ C36_Set <=> game.en_passant_expires # NoneInt
    /\ C36_Set =>
          LET mover == opponent_of(game.current_player)
              beyond == <<game.en_passant_target[1] + (IF mover = "white" THEN -1 ELSE 1),
                          game.en_passant_target[2]>>
          IN  /\ game.en_passant_expires = game.turn_counter
              /\ game.en_passant_target \in Pos
              /\ game.board[game.en_passant_target] = None
              /\ beyond \in Pos
              /\ game.board[beyond] = <<mover, "P">>

\* The pair is set after black's double push, and the game had moves before
\* it that were no double pushes.
C36_Witness ==
    /\ Succeeded
    /\ C36_Set
    /\ game.current_player = "white"
    /\ game.turn_counter >= 4
    /\ game.en_passant_target[1] = 2


\* ----------------------------------------------------------------------
\* C37: in play from the initial position the board always holds exactly one
\* white king and exactly one black king.
C37_OneKingEach ==
    \A color \in Colors : Cardinality(Pieces(game.board, <<color, "K">>)) = 1

\* Pieces have been captured and a white pawn has been promoted, and both
\* kings are there.
C37_Witness ==
    /\ Succeeded
    /\ C37_OneKingEach
    /\ Cardinality(Pieces(game.board, <<"white", "Q">>)) = 2
    /\ Cardinality({p \in Pos : game.board[p] # None}) < 31


\* ----------------------------------------------------------------------
\* C38: in every state reached from the initial position, for a pawn of
\* either colour, whoever is to move, get_valid_moves holds an empty
\* forward-diagonal square only when the en-passant window is open on that
\* square and the enemy pawn that made the double push stands beside the
\* pawn, on the file of that square.
C38_EmptyDiagonals(p) ==
    {t \in get_valid_moves(game, p[1], p[2]) : t[2] # p[2] /\ game.board[t] = None}

C38_PushedPawnBeside(p, t) ==
    /\ en_passant_open(game)
    /\ game.en_passant_target = t
    /\ game.board[<<p[1], t[2]>>] = <<opponent_of(game.board[p][1]), "P">>

C38_EmptyDiagonalOnlyBesidePushedPawn ==
    \A p \in C32_Pawns : \A t \in C38_EmptyDiagonals(p) : C38_PushedPawnBeside(p, t)


\* ----------------------------------------------------------------------
\* C39: after every controller event handler has returned, if the game is
\* not over and the side to move is under AI control, a computation for
\* that colour is pending: _active_ai_colour is the side to move and
\* _ai_thinking is set.
C39_AiToMove ==
    /\ ~ game.game_over
    /\ controller._player_types[game.current_player] = "ai"

C39_Pending ==
    /\ controller._active_ai_colour = game.current_player
    /\ controller._ai_thinking

C39_Waiting == C39_AiToMove /\ ~ C39_Pending

C39_FailureDialogs == {"KI-Fehler", "KI beschaeftigt", "Ungueltiger Zug"}

\* The UI loop runs the callback of a result for the active colour whose
\* start square is empty on the board: _execute_move returns at once.
C39_EmptyStartDelivered ==
    /\ ui_queue # <<>>
    /\ ui_queue' = Tail(ui_queue)
    /\ Head(ui_queue).callback = "_on_ai_move_ready"
    /\ Head(ui_queue).colour = controller._active_ai_colour
    /\ game.board[Head(ui_queue).move[1]] = None
    /\ game' = game

====
